---- MODULE Spec2Model ----
(***************************************************************************)
(* The workflow engine of services/workflow-engine: the workflow store     *)
(* (create_workflow / update_workflow, versioning through duplicate rows)  *)
(* and the sequential step interpreter WorkflowExecutionService.           *)
(*                                                                         *)
(* Persistence is an AsyncSession: attribute assignments change the        *)
(* in-memory ORM object, and every `await session.commit()` writes the     *)
(* object's pending changes and the added rows to the tables.  Actions are *)
(* cut at the await points of the coroutines.                              *)
(***************************************************************************)
EXTENDS Integers, Sequences, FiniteSets, TLC

VARIABLES
    workflows,    \* table workflows: sequence of rows, a row's id is its index
    executions,   \* table workflow_executions (persisted rows), id = index
    logs,         \* table workflow_logs (persisted rows, append-only)
    runs,         \* runs[e]: the coroutine of execute_workflow for execution e
    pending,      \* requests between their select and their commit
    origin,       \* history: origin[id] is the created row that row id derives from
    now,          \* datetime.utcnow(), a logical clock
    response,     \* the last answer a REST handler or the service gave
    campaigns,    \* communication hub, table campaigns: a row's id is its index
    background,   \* BackgroundTasks: the tasks added by add_task, in order
    workflows_collection,  \* graph engine, Firestore collection workflows
    executions_collection, \* graph engine, Firestore collection workflow_executions
    published,    \* graph engine, the events sent to the topic workflow-events
    triggers,     \* TriggerManager._triggers: workflow id -> list of triggers
    event_handlers, \* TriggerManager._event_handlers: trigger type -> handlers
    evaluation,   \* the call of evaluate_event under way: its locals and position
    dispatched    \* the handler calls evaluate_event has awaited, in order

engine == <<workflows, executions, logs, runs, origin>>

graph == <<workflows_collection, executions_collection, published>>

manager == <<triggers, event_handlers, evaluation, dispatched>>

others == <<campaigns, background, graph, manager>>

vars == <<workflows, executions, logs, runs, pending, origin, now, response,
          campaigns, background, workflows_collection, executions_collection,
          published, triggers, event_handlers, evaluation, dispatched>>

\* the graph engine and its trigger manager before any of their requests
GraphIdle ==
    /\ workflows_collection = <<>>
    /\ executions_collection = <<>>
    /\ published = <<>>

NoEvaluation == [pc |-> "none"]

ManagerIdle ==
    /\ triggers = <<>>
    /\ event_handlers = <<>>
    /\ evaluation = NoEvaluation
    /\ dispatched = <<>>

\* the communication hub and the graph engine before any of their requests
OthersIdle ==
    /\ campaigns = <<>>
    /\ background = <<>>
    /\ GraphIdle
    /\ ManagerIdle

-----------------------------------------------------------------------------
(* Bounds of the model *)

MaxSteps == 3
MaxWorkflows == 3
\* the chunks (literal texts and placeholders) of a template
MaxChunks == 2

-----------------------------------------------------------------------------
(* Python values.  Every value is a record of the same shape so that values *)
(* of different Python types can be compared: t is the type, n the number   *)
(* of an int or bool (True is 1), s the text of a str as a sequence of      *)
(* chunks, where a placeholder such as "{{ input.foo }}" is one chunk.      *)

NoneVal == [t |-> "none", n |-> 0, s |-> <<>>]
IntVal(i) == [t |-> "int", n |-> i, s |-> <<>>]
BoolVal(b) == [t |-> "bool", n |-> IF b THEN 1 ELSE 0, s |-> <<>>]
StrVal(chunks) == [t |-> "str", n |-> 0, s |-> chunks]
\* a JSON object returned by an HTTP endpoint, identified by n
ObjVal(i) == [t |-> "obj", n |-> i, s |-> <<>>]
\* a key that is absent from a step dictionary
MissingVal == [t |-> "missing", n |-> 0, s |-> <<>>]

IsNumber(v) == v.t \in {"int", "bool"}

\* str(value)
PyStr(v) ==
    CASE v.t = "none" -> <<"None">>
      [] v.t = "bool" -> IF v.n = 1 THEN <<"True">> ELSE <<"False">>
      [] v.t = "int" -> <<ToString(v.n)>>
      [] v.t = "str" -> v.s
      [] OTHER -> <<"{'id': " \o ToString(v.n) \o "}">>

\* left == right
PyEq(a, b) ==
    IF IsNumber(a) /\ IsNumber(b) THEN a.n = b.n
    ELSE a.t = b.t /\ a.n = b.n /\ a.s = b.s

\* the outcome of a call: a returned value or a raised exception
Return(v) == [ok |-> TRUE, val |-> v, err |-> ""]
Raise(msg) == [ok |-> FALSE, val |-> NoneVal, err |-> msg]

-----------------------------------------------------------------------------
(* Python dicts: a sequence of <<key, value>> pairs in insertion order, no  *)
(* key twice.                                                               *)

EmptyDict == <<>>

DictKeys(d) == {d[j][1] : j \in 1..Len(d)}

HasKey(d, k) == k \in DictKeys(d)

DictGet(d, k) == d[CHOOSE j \in 1..Len(d) : d[j][1] = k][2]

\* mutant of DictSet: d.setdefault(k, v), the first value of a key stays
DictSetDefault(d, k, v) ==
    IF k \in DictKeys(d) THEN d ELSE Append(d, <<k, v>>)

\* d[k] = v: an existing key keeps its position
DictSet(d, k, v) ==
    IF HasKey(d, k)
    THEN [j \in 1..Len(d) |-> IF d[j][1] = k THEN <<k, v>> ELSE d[j]]
    ELSE Append(d, <<k, v>>)

-----------------------------------------------------------------------------
(* Step records.  A step is a dictionary of Workflow.steps; the model keeps *)
(* one record shape for all of them, a key the dictionary does not have is  *)
(* Absent (text keys) or MissingVal (value keys).                           *)

Absent == "<absent>"

Literal(v) == [type |-> "literal", value |-> v, path |-> <<>>]
\* path is value_def["path"].split("."), the parts of the dotted path
Variable(parts) == [type |-> "variable", value |-> NoneVal, path |-> parts]

NoCondition == [type |-> Absent, operator |-> Absent,
                left |-> Literal(NoneVal), right |-> Literal(NoneVal)]
Comparison(op, l, r) == [type |-> "comparison", operator |-> op, left |-> l, right |-> r]

BaseStep(ty, okey) ==
    [type |-> ty, output_key |-> okey, method |-> Absent, url |-> <<>>,
     condition |-> NoCondition, seconds |-> MissingVal,
     function |-> Absent, template |-> MissingVal]

HttpStep(url, okey) == [BaseStep("http_request", okey) EXCEPT !.method = "GET", !.url = url]
ConditionStep(c, okey) == [BaseStep("condition", okey) EXCEPT !.condition = c]
EmailStep == BaseStep("email", Absent)
DelayStep(sec) == [BaseStep("delay", Absent) EXCEPT !.seconds = sec]
FunctionStep(fn, tpl, okey) == [BaseStep("function", okey) EXCEPT !.function = fn, !.template = tpl]

\* the members of the enum StepType
StepTypes == {"http_request", "condition", "email", "delay", "function", "subprocess"}

-----------------------------------------------------------------------------
(* _interpolate *)

Placeholder(ns, key) == "{{ " \o ns \o "." \o key \o " }}"

\* str.replace on a chunked text: every chunk equal to old becomes new
RECURSIVE Replace(_, _, _)
Replace(text, old, new) ==
    IF text = <<>> THEN <<>>
    ELSE (IF Head(text) = old THEN new ELSE <<Head(text)>>) \o Replace(Tail(text), old, new)

\* for key, value in d.items(): result = result.replace("{{ ns.key }}", str(value))
RECURSIVE ReplaceItems(_, _, _)
ReplaceItems(text, ns, d) ==
    IF d = <<>> THEN text
    ELSE ReplaceItems(Replace(text, Placeholder(ns, d[1][1]), PyStr(d[1][2])), ns, Tail(d))

\* mutant of Interpolate: only the placeholders of input are replaced
InterpolateInputOnly(template, context) ==
    ReplaceItems(template, "input", context.input)

Interpolate(template, context) ==
    ReplaceItems(ReplaceItems(template, "input", context.input), "vars", context.vars)

\* json.dumps of a template value
JsonDumps(v) ==
    CASE v.t = "str" -> <<"\"">> \o v.s \o <<"\"">>
      [] v.t = "int" -> <<ToString(v.n)>>
      [] v.t = "bool" -> IF v.n = 1 THEN <<"true">> ELSE <<"false">>
      [] v.t = "none" -> <<"null">>
      [] OTHER -> <<"{\"id\": " \o ToString(v.n) \o "}">>

-----------------------------------------------------------------------------
(* _get_value.  Paths of the model have at least two parts.                 *)

KeyError(k) == Raise("'" \o k \o "'")

\* current[part] for a value found in the context
Index(v, part) ==
    IF v.t = "obj"
    THEN (IF part = "id" THEN Return(IntVal(v.n)) ELSE KeyError(part))
    ELSE IF v.t = "str" THEN Raise("string indices must be integers")
    ELSE Raise("object is not subscriptable")

RECURSIVE Walk(_, _)
Walk(res, parts) ==
    IF ~res.ok \/ parts = <<>> THEN res
    ELSE Walk(Index(res.val, Head(parts)), Tail(parts))

\* mutant of GetValue: a literal string is interpolated against the context
GetValueInterpolating(value_def, context) ==
    IF value_def.type = "variable"
    THEN LET root == value_def.path[1]
             key == value_def.path[2]
             d == CASE root = "input" -> context.input
                    [] root = "vars" -> context.vars
                    [] OTHER -> context.output
         IN  IF root \notin {"input", "output", "vars"} THEN KeyError(root)
             ELSE IF ~HasKey(d, key) THEN KeyError(key)
             ELSE Walk(Return(DictGet(d, key)), SubSeq(value_def.path, 3, Len(value_def.path)))
    ELSE IF value_def.type = "literal"
    THEN Return(IF value_def.value.t = "str"
                THEN StrVal(Interpolate(value_def.value.s, context))
                ELSE value_def.value)
    ELSE Raise("Unsupported value type: " \o value_def.type)

GetValue(value_def, context) ==
    IF value_def.type = "variable"
    THEN LET root == value_def.path[1]
             key == value_def.path[2]
             d == CASE root = "input" -> context.input
                    [] root = "vars" -> context.vars
                    [] OTHER -> context.output
         IN  IF root \notin {"input", "output", "vars"} THEN KeyError(root)
             ELSE IF ~HasKey(d, key) THEN KeyError(key)
             ELSE Walk(Return(DictGet(d, key)), SubSeq(value_def.path, 3, Len(value_def.path)))
    ELSE IF value_def.type = "literal" THEN Return(value_def.value)
    ELSE Raise("Unsupported value type: " \o value_def.type)

-----------------------------------------------------------------------------
(* The step handlers.  Each gives the outcome of the handler's code up to   *)
(* its await, or of the whole handler when it does not wait.                *)

TypeName(v) ==
    CASE v.t = "none" -> "NoneType"
      [] v.t = "obj" -> "dict"
      [] OTHER -> v.t

\* left < right, left > right, ... : defined between numbers; str operands of
\* an ordering comparison are not among the inputs of the model
Ordering(sym, a, b) ==
    IF IsNumber(a) /\ IsNumber(b)
    THEN Return(BoolVal(CASE sym = ">" -> a.n > b.n
                          [] sym = ">=" -> a.n >= b.n
                          [] sym = "<" -> a.n < b.n
                          [] OTHER -> a.n <= b.n))
    ELSE Raise("'" \o sym \o "' not supported between instances of '"
               \o TypeName(a) \o "' and '" \o TypeName(b) \o "'")

\* mutant of ExecuteCondition: gte and lte are evaluated as gt and lt
ExecuteConditionStrict(step, context) ==
    LET condition == step.condition
        left == GetValue(condition.left, context)
        right == GetValue(condition.right, context)
        operator == condition.operator
    IN  IF condition.type = Absent THEN KeyError("condition")
        ELSE IF condition.type # "comparison"
        THEN Raise("Unsupported condition type: " \o condition.type)
        ELSE IF ~left.ok THEN left
        ELSE IF ~right.ok THEN right
        ELSE CASE operator = "eq" -> Return(BoolVal(PyEq(left.val, right.val)))
               [] operator = "neq" -> Return(BoolVal(~PyEq(left.val, right.val)))
               [] operator = "gt" -> Ordering(">", left.val, right.val)
               [] operator = "gte" -> Ordering(">", left.val, right.val)
               [] operator = "lt" -> Ordering("<", left.val, right.val)
               [] operator = "lte" -> Ordering("<", left.val, right.val)
               [] OTHER -> Raise("Unsupported operator: " \o operator)

ExecuteCondition(step, context) ==
    LET condition == step.condition
        left == GetValue(condition.left, context)
        right == GetValue(condition.right, context)
        operator == condition.operator
    IN  IF condition.type = Absent THEN KeyError("condition")
        ELSE IF condition.type # "comparison"
        THEN Raise("Unsupported condition type: " \o condition.type)
        ELSE IF ~left.ok THEN left
        ELSE IF ~right.ok THEN right
        ELSE CASE operator = "eq" -> Return(BoolVal(PyEq(left.val, right.val)))
               [] operator = "neq" -> Return(BoolVal(~PyEq(left.val, right.val)))
               [] operator = "gt" -> Ordering(">", left.val, right.val)
               [] operator = "gte" -> Ordering(">=", left.val, right.val)
               [] operator = "lt" -> Ordering("<", left.val, right.val)
               [] operator = "lte" -> Ordering("<=", left.val, right.val)
               [] OTHER -> Raise("Unsupported operator: " \o operator)

\* returns True after asyncio.sleep(1)
ExecuteEmail(step, context) == Return(BoolVal(TRUE))

\* the check before asyncio.sleep(seconds); the handler returns None
ExecuteDelay(step) ==
    LET seconds == step.seconds
    IN  IF seconds.t = "missing" THEN KeyError("seconds")
        ELSE IF ~IsNumber(seconds) \/ seconds.n < 0
        THEN Raise("Delay must be a non-negative number")
        ELSE Return(NoneVal)

ExecuteFunction(step, context) ==
    LET function_type == step.function
    IN  IF function_type = Absent THEN KeyError("function")
        ELSE IF function_type = "transform"
        THEN (IF step.template.t = "missing" THEN KeyError("template")
              ELSE Return(StrVal(Interpolate(JsonDumps(step.template), context))))
        ELSE Raise("Unsupported function type: " \o function_type)

\* the request _execute_http_request prepares: the interpolated url
HttpRequestUrl(step, context) ==
    IF step.method = Absent THEN KeyError("method")
    ELSE Return(StrVal(Interpolate(step.url, context)))

\* what the endpoint may answer: response.json() of a 2xx response, or the
\* exception of raise_for_status() / of the transport
HttpOutcomes ==
    {Return(ObjVal(1)), Return(IntVal(90)),
     Raise("Server error '500 Internal Server Error'")}

\* StepType(step["type"])
ToStepType(step) ==
    IF step.type = Absent THEN KeyError("type")
    ELSE IF step.type \notin StepTypes
    THEN Raise("'" \o step.type \o "' is not a valid StepType")
    ELSE Return(StrVal(<<step.type>>))

-----------------------------------------------------------------------------
(* Rows of the three tables *)

Tenants == {"t1", "t2"}

\* NULL of the nullable columns current_step, start_time, end_time
NoStep == -1
NoTime == 0
\* error_data NULL
NoError == [set |-> FALSE, error |-> "", step |-> NoStep]
ErrorData(msg, step) == [set |-> TRUE, error |-> msg, step |-> step]

\* WorkflowModel(**fields, tenant_id=..., version=...): id, status, version and
\* is_latest take their column defaults unless given
WorkflowRow(id, tenant_id, fields, version) ==
    [id |-> id, tenant_id |-> tenant_id, name |-> fields.name, steps |-> fields.steps,
     status |-> fields.status, version |-> version, is_latest |-> TRUE,
     created_at |-> now, updated_at |-> now]

\* mutant of ExecutionRow: current_step starts at 0 instead of NULL
ExecutionRowStepZero(id, workflow, input_data, tenant_id) ==
    [id |-> id, workflow_id |-> workflow.id, tenant_id |-> tenant_id,
     status |-> "pending", current_step |-> 0, input_data |-> input_data,
     output_data |-> EmptyDict, error_data |-> NoError,
     start_time |-> now, end_time |-> NoTime, retries |-> 0]

\* WorkflowExecution(workflow_id=, tenant_id=, input_data=, start_time=) as inserted
ExecutionRow(id, workflow, input_data, tenant_id) ==
    [id |-> id, workflow_id |-> workflow.id, tenant_id |-> tenant_id,
     status |-> "pending", current_step |-> NoStep, input_data |-> input_data,
     output_data |-> EmptyDict, error_data |-> NoError,
     start_time |-> now, end_time |-> NoTime, retries |-> 0]

\* _log_step: the WorkflowLog row it adds and commits
LogStep(execution_id, step, step_type, message, details, tenant_id) ==
    [execution_id |-> execution_id, step |-> step, step_type |-> step_type,
     message |-> message, details |-> details, tenant_id |-> tenant_id,
     timestamp |-> now]

\* the coroutine of execute_workflow between two of its awaits
Run(workflow, input_data, tenant_id) ==
    [pc |-> "loop", workflow |-> workflow, tenant_id |-> tenant_id, i |-> 0,
     context |-> [input |-> input_data, output |-> EmptyDict, vars |-> EmptyDict],
     exc |-> Return(NoneVal), failed_step |-> NoStep, request_url |-> <<>>]

\* mutant of MarkCompleted: the run is closed with a status of the workflow
\* row (WorkflowStatus.ARCHIVED) instead of one of ExecutionStatus
MarkCompletedArchived(row, output_data) ==
    [row EXCEPT !.status = "archived", !.output_data = output_data, !.end_time = now]

\* lines 51-53: the fields execute_workflow sets on success
MarkCompleted(row, output_data) ==
    [row EXCEPT !.status = "completed", !.output_data = output_data, !.end_time = now]

\* mutant of MarkFailed: end_time is not set
MarkFailedNoEndTime(row, msg) ==
    [row EXCEPT !.status = "failed", !.error_data = ErrorData(msg, row.current_step)]

\* mutant of MarkFailed: the step is reported counting from 1
MarkFailedFromOne(row, msg) ==
    [row EXCEPT !.status = "failed", !.error_data = ErrorData(msg, row.current_step + 1),
                !.end_time = now]

\* mutant of MarkFailed: the status and the end time are set, error_data is not
MarkFailedNoErrorData(row, msg) ==
    [row EXCEPT !.status = "failed", !.end_time = now]

\* lines 57-62: the fields execute_workflow sets on an exception
MarkFailed(row, msg) ==
    [row EXCEPT !.status = "failed", !.error_data = ErrorData(msg, row.current_step),
                !.end_time = now]

\* mutant of StoreResult: the result is not written to vars
StoreResultNowhere(vars_, step, result) == vars_

\* lines 111-112: if "output_key" in step: context["vars"][step["output_key"]] = result
StoreResult(vars_, step, result) ==
    IF step.output_key # Absent THEN DictSet(vars_, step.output_key, result) ELSE vars_

\* the step the loop is at (enumerate counts from 0)
CurrentStepOf(r) == r.workflow.steps[r.i + 1]

-----------------------------------------------------------------------------
(* WorkflowExecutionService.execute_workflow *)

\* lines 36-44: the execution row is created and committed
ExecuteWorkflow(w, input_data, tenant_id) ==
    LET id == Len(executions) + 1
    IN  /\ executions' = Append(executions, ExecutionRow(id, workflows[w], input_data, tenant_id))
        /\ runs' = Append(runs, Run(workflows[w], input_data, tenant_id))
        /\ now' = now + 1
        /\ response' = [kind |-> "started", id |-> id]
        /\ UNCHANGED <<others, workflows, logs, pending, origin>>

\* mutant of StepBegin: current_step is set on the object and not committed
StepBeginNoCommit(e) ==
    /\ runs[e].pc = "loop"
    /\ runs[e].i < Len(runs[e].workflow.steps)
    /\ runs' = [runs EXCEPT ![e].pc = "dispatch"]
    /\ UNCHANGED <<others, workflows, executions, logs, pending, origin, now, response>>

\* lines 90-92: the loop takes the next step and commits current_step
StepBegin(e) ==
    /\ runs[e].pc = "loop"
    /\ runs[e].i < Len(runs[e].workflow.steps)
    /\ executions' = [executions EXCEPT ![e].current_step = runs[e].i]
    /\ runs' = [runs EXCEPT ![e].pc = "dispatch"]
    /\ now' = now + 1
    /\ UNCHANGED <<others, workflows, logs, pending, origin, response>>

\* lines 136, 48-53, 74-75: the loop is exhausted, the run completes
Complete(e) ==
    /\ runs[e].pc = "loop"
    /\ runs[e].i = Len(runs[e].workflow.steps)
    /\ executions' = [executions EXCEPT ![e] = MarkCompleted(@, runs[e].context.vars)]
    /\ runs' = [runs EXCEPT ![e].pc = "returned"]
    /\ now' = now + 1
    /\ response' = [kind |-> "execution", id |-> e]
    /\ UNCHANGED <<others, workflows, logs, pending, origin>>

\* mutant of StepSucceeded: the context is one dict shared by the invocations
\* (an attribute of the class instead of a local of _execute_steps)
StepSucceededShared(e, result) ==
    LET r == runs[e]
        step == CurrentStepOf(r)
    IN  /\ runs' = [f \in DOMAIN runs |->
                      IF f = e
                      THEN [r EXCEPT !.context.vars = StoreResult(@, step, result),
                                     !.i = r.i + 1, !.pc = "loop"]
                      ELSE [runs[f] EXCEPT !.context.vars = StoreResult(@, step, result)]]
        /\ logs' = Append(logs, LogStep(e, r.i, step.type,
                              "Successfully executed " \o step.type \o " step",
                              Return(result), r.workflow.tenant_id))
        /\ now' = now + 1
        /\ UNCHANGED <<others, workflows, executions, pending, origin, response>>

\* mutant of StepSucceeded: the loop goes on two steps further
StepSucceededSkip(e, result) ==
    LET r == runs[e]
        step == CurrentStepOf(r)
        vars1 == StoreResult(r.context.vars, step, result)
    IN  /\ runs' = [runs EXCEPT ![e].context.vars = vars1, ![e].i = r.i + 2, ![e].pc = "loop"]
        /\ logs' = Append(logs, LogStep(e, r.i, step.type,
                              "Successfully executed " \o step.type \o " step",
                              Return(result), r.workflow.tenant_id))
        /\ now' = now + 1
        /\ UNCHANGED <<others, workflows, executions, pending, origin, response>>

\* lines 110-122: the result goes to vars under output_key, the success row
\* is committed, the loop goes on
StepSucceeded(e, result) ==
    LET r == runs[e]
        step == CurrentStepOf(r)
        vars1 == StoreResult(r.context.vars, step, result)
    IN  /\ runs' = [runs EXCEPT ![e].context.vars = vars1, ![e].i = r.i + 1, ![e].pc = "loop"]
        /\ logs' = Append(logs, LogStep(e, r.i, step.type,
                              "Successfully executed " \o step.type \o " step",
                              Return(result), r.workflow.tenant_id))
        /\ now' = now + 1
        /\ UNCHANGED <<others, workflows, executions, pending, origin, response>>

\* mutant of StepFailed: the failure is logged and the loop goes on
StepFailedContinue(e, msg) ==
    /\ runs' = [runs EXCEPT ![e].exc = Raise(msg), ![e].failed_step = runs[e].i,
                            ![e].i = runs[e].i + 1, ![e].pc = "loop"]
    /\ logs' = Append(logs, LogStep(e, runs[e].i, CurrentStepOf(runs[e]).type,
                          "Failed to execute " \o CurrentStepOf(runs[e]).type \o " step",
                          Raise(msg), runs[e].workflow.tenant_id))
    /\ now' = now + 1
    /\ UNCHANGED <<others, workflows, executions, pending, origin, response>>

\* mutant of StepFailed: a step that raised is run once more before the
\* failure is final, and the retry is counted
StepFailedRetry(e, msg) ==
    LET r == runs[e]
        step == CurrentStepOf(r)
        again == executions[e].retries = 0
    IN  /\ runs' = IF again THEN runs
                   ELSE [runs EXCEPT ![e].exc = Raise(msg), ![e].failed_step = r.i, ![e].pc = "raise"]
        /\ executions' = IF again THEN [executions EXCEPT ![e].retries = 1] ELSE executions
        /\ logs' = Append(logs, LogStep(e, r.i, step.type,
                              "Failed to execute " \o step.type \o " step",
                              Raise(msg), r.workflow.tenant_id))
        /\ now' = now + 1
        /\ UNCHANGED <<others, workflows, pending, origin, response>>

\* mutant of StepFailed: the exception is re-raised without a failure row
StepFailedNoLog(e, msg) ==
    /\ runs' = [runs EXCEPT ![e].exc = Raise(msg), ![e].failed_step = runs[e].i, ![e].pc = "raise"]
    /\ UNCHANGED <<others, workflows, executions, logs, pending, origin, now, response>>

\* lines 124-133: the failure row is committed before the exception is re-raised
StepFailed(e, msg) ==
    LET r == runs[e]
        step == CurrentStepOf(r)
    IN  /\ runs' = [runs EXCEPT ![e].exc = Raise(msg), ![e].failed_step = r.i, ![e].pc = "raise"]
        /\ logs' = Append(logs, LogStep(e, r.i, step.type,
                              "Failed to execute " \o step.type \o " step",
                              Raise(msg), r.workflow.tenant_id))
        /\ now' = now + 1
        /\ UNCHANGED <<others, workflows, executions, pending, origin, response>>

\* lines 55-72: the handler of execute_workflow marks the execution failed and
\* commits its own log row (the commit of _log_step writes both)
ExceptionCaught(e, msg) ==
    LET current_step == executions[e].current_step
    IN  /\ executions' = [executions EXCEPT ![e] = MarkFailed(@, msg)]
        /\ logs' = Append(logs, LogStep(e, IF current_step = NoStep THEN 0 ELSE current_step,
                              "function", "Error executing step: " \o msg,
                              Raise(msg), runs[e].tenant_id))
        /\ runs' = [runs EXCEPT ![e].exc = Raise(msg), ![e].failed_step = runs[e].i, ![e].pc = "final"]
        /\ now' = now + 1
        /\ UNCHANGED <<others, workflows, pending, origin, response>>

\* line 94 raises: StepType(step["type"]) is outside the try of the loop
DispatchInvalid(e) ==
    /\ runs[e].pc = "dispatch"
    /\ ~ToStepType(CurrentStepOf(runs[e])).ok
    /\ ExceptionCaught(e, ToStepType(CurrentStepOf(runs[e])).err)

\* lines 97-108: what the handler of the step does before it first waits
HandlerStart(step, context) ==
    CASE step.type = "http_request" ->
           LET req == HttpRequestUrl(step, context)
           IN  IF req.ok THEN [kind |-> "await_http", res |-> req] ELSE [kind |-> "done", res |-> req]
      [] step.type = "condition" -> [kind |-> "done", res |-> ExecuteCondition(step, context)]
      [] step.type = "email" -> [kind |-> "await_sleep", res |-> ExecuteEmail(step, context)]
      [] step.type = "delay" ->
           LET chk == ExecuteDelay(step)
           IN  IF chk.ok THEN [kind |-> "await_sleep", res |-> chk] ELSE [kind |-> "done", res |-> chk]
      [] step.type = "function" -> [kind |-> "done", res |-> ExecuteFunction(step, context)]
      [] OTHER -> [kind |-> "done", res |-> Raise("Unsupported step type: " \o step.type)]

\* a handler that returns or raises without waiting (condition, function, an
\* unsupported type, a failed check)
DispatchSync(e) ==
    LET h == HandlerStart(CurrentStepOf(runs[e]), runs[e].context)
    IN  /\ runs[e].pc = "dispatch"
        /\ ToStepType(CurrentStepOf(runs[e])).ok
        /\ h.kind = "done"
        /\ IF h.res.ok THEN StepSucceeded(e, h.res.val) ELSE StepFailed(e, h.res.err)

\* a handler that waits: the HTTP request is sent, or the sleep starts
DispatchAwait(e) ==
    LET h == HandlerStart(CurrentStepOf(runs[e]), runs[e].context)
    IN  /\ runs[e].pc = "dispatch"
        /\ ToStepType(CurrentStepOf(runs[e])).ok
        /\ h.kind # "done"
        /\ runs' = [runs EXCEPT ![e].pc = h.kind,
                                ![e].request_url = IF h.kind = "await_http" THEN h.res.val.s ELSE <<>>]
        /\ UNCHANGED <<others, workflows, executions, logs, pending, origin, now, response>>

\* lines 162-171: the response arrives
HttpResponse(e, outcome) ==
    /\ runs[e].pc = "await_http"
    /\ IF outcome.ok THEN StepSucceeded(e, outcome.val) ELSE StepFailed(e, outcome.err)

\* asyncio.sleep returns: email gives True, delay gives None
SleepDone(e) ==
    /\ runs[e].pc = "await_sleep"
    /\ StepSucceeded(e, IF CurrentStepOf(runs[e]).type = "email"
                        THEN ExecuteEmail(CurrentStepOf(runs[e]), runs[e].context).val
                        ELSE NoneVal)

\* line 134: the exception of the step reaches the handler of execute_workflow
Reraise(e) ==
    /\ runs[e].pc = "raise"
    /\ ExceptionCaught(e, runs[e].exc.err)

\* lines 74-75 after a failure: the last commit, and the execution is returned
ReturnFailed(e) ==
    /\ runs[e].pc = "final"
    /\ runs' = [runs EXCEPT ![e].pc = "returned"]
    /\ now' = now + 1
    /\ response' = [kind |-> "execution", id |-> e]
    /\ UNCHANGED <<others, workflows, executions, logs, pending, origin>>

-----------------------------------------------------------------------------
(* The workflow store: create_workflow and update_workflow.  The module    *)
(* api/v1/workflows.py uses sqlalchemy's select without importing it; the   *)
(* handlers are modelled with the query they state.                         *)

\* create_workflow: one insert, version 1, is_latest true
CreateWorkflow(fields, tenant_id) ==
    LET id == Len(workflows) + 1
    IN  /\ workflows' = Append(workflows, WorkflowRow(id, tenant_id, fields, 1))
        /\ origin' = Append(origin, id)
        /\ now' = now + 1
        /\ response' = [kind |-> "workflow", id |-> id]
        /\ UNCHANGED <<others, executions, logs, runs, pending>>

\* select ... where id = workflow_id and tenant_id = tenant_id
FindWorkflow(workflow_id, tenant_id) ==
    {w \in 1..Len(workflows) :
        workflows[w].id = workflow_id /\ workflows[w].tenant_id = tenant_id}

\* update_workflow, lines 96-107: the select finds no row, 404
UpdateNotFound(workflow_id, fields, tenant_id) ==
    /\ FindWorkflow(workflow_id, tenant_id) = {}
    /\ response' = [kind |-> "Workflow not found", id |-> workflow_id]
    /\ UNCHANGED <<others, workflows, executions, logs, runs, pending, origin, now>>

\* update_workflow, lines 96-104: the select loads the addressed row
UpdateSelect(workflow_id, fields, tenant_id) ==
    /\ FindWorkflow(workflow_id, tenant_id) # {}
    /\ pending' = Append(pending,
         [db_workflow |-> workflows[workflow_id], fields |-> fields, tenant_id |-> tenant_id])
    /\ UNCHANGED <<others, workflows, executions, logs, runs, origin, now, response>>

\* mutant of MarkNotLatest: the replaced version is archived as well
MarkNotLatestArchive(row, loaded) ==
    [row EXCEPT !.is_latest = FALSE, !.status = "archived", !.updated_at = now]

\* the UPDATE the flush emits for db_workflow.is_latest = False: none when the
\* loaded row already had is_latest false; updated_at follows onupdate
MarkNotLatest(row, loaded) ==
    IF loaded.is_latest
    THEN [row EXCEPT !.is_latest = FALSE, !.updated_at = now]
    ELSE row

\* the new version of lines 110-114
NewVersion(id, req) ==
    WorkflowRow(id, req.tenant_id, req.fields, req.db_workflow.version + 1)

\* update_workflow, lines 109-121: the commit inserts the new version and
\* writes is_latest = False to the addressed row
UpdateCommit(p) ==
    LET id == Len(workflows) + 1
        req == pending[p]
        old == req.db_workflow.id
    IN  /\ workflows' = Append([workflows EXCEPT ![old] = MarkNotLatest(@, req.db_workflow)],
                               NewVersion(id, req))
        /\ origin' = Append(origin, origin[old])
        /\ pending' = SubSeq(pending, 1, p - 1) \o SubSeq(pending, p + 1, Len(pending))
        /\ now' = now + 1
        /\ response' = [kind |-> "workflow", id |-> id]
        /\ UNCHANGED <<others, executions, logs, runs>>

-----------------------------------------------------------------------------
(* Inputs of the model *)

Inputs ==
    { EmptyDict,
      << <<"score", IntVal(85)>>, <<"foo", StrVal(<<"bar">>)>> >> }

StepPool ==
    { HttpStep(<<"http://crm/", "{{ input.foo }}">>, "resp"),
      ConditionStep(Comparison("gt", Variable(<<"input", "score">>), Literal(IntVal(80))), "passed"),
      ConditionStep(Comparison("contains", Literal(IntVal(5)), Literal(IntVal(3))), "passed"),
      EmailStep,
      DelayStep(IntVal(1)),
      DelayStep(IntVal(-1)),
      DelayStep(StrVal(<<"soon">>)),
      FunctionStep("transform", StrVal(<<"{{ vars.resp }}">>), "resp"),
      FunctionStep("script", MissingVal, "out"),
      BaseStep("subprocess", Absent),
      BaseStep("approval", Absent),
      BaseStep(Absent, Absent) }

\* the step lists of at most MaxSteps steps
StepLists == UNION {[1..n -> StepPool] : n \in 0..MaxSteps}

Fields(steps, status) == [name |-> "wf", steps |-> steps, status |-> status]

-----------------------------------------------------------------------------
(* Spec: one call of execute_workflow on an active workflow *)

Init ==
    /\ \E steps \in StepLists :
         workflows = << [id |-> 1, tenant_id |-> "t1", name |-> "wf", steps |-> steps,
                         status |-> "active", version |-> 1, is_latest |-> TRUE,
                         created_at |-> 1, updated_at |-> 1] >>
    /\ executions = <<>>
    /\ logs = <<>>
    /\ runs = <<>>
    /\ pending = <<>>
    /\ origin = <<1>>
    /\ now = 2
    /\ response = [kind |-> "none", id |-> 0]
    /\ OthersIdle

Call ==
    \E input_data \in Inputs :
        /\ executions = <<>>
        /\ ExecuteWorkflow(1, input_data, workflows[1].tenant_id)

Next ==
    \/ Call
    \/ \E e \in 1..Len(runs) : StepBegin(e)
    \/ \E e \in 1..Len(runs) : Complete(e)
    \/ \E e \in 1..Len(runs) : DispatchInvalid(e)
    \/ \E e \in 1..Len(runs) : DispatchSync(e)
    \/ \E e \in 1..Len(runs) : DispatchAwait(e)
    \/ \E e \in 1..Len(runs) : \E outcome \in HttpOutcomes : HttpResponse(e, outcome)
    \/ \E e \in 1..Len(runs) : SleepDone(e)
    \/ \E e \in 1..Len(runs) : Reraise(e)
    \/ \E e \in 1..Len(runs) : ReturnFailed(e)

Spec == Init /\ [][Next]_vars

-----------------------------------------------------------------------------
(* SpecStore: create_workflow and update_workflow requests, the updates     *)
(* interleaved between their select and their commit                        *)

StoreFields ==
    { Fields(<<>>, "draft"), Fields(<<EmailStep>>, "active") }

InitStore ==
    /\ workflows = <<>>
    /\ executions = <<>>
    /\ logs = <<>>
    /\ runs = <<>>
    /\ pending = <<>>
    /\ origin = <<>>
    /\ now = 1
    /\ response = [kind |-> "none", id |-> 0]
    /\ OthersIdle

\* the requests accepted: the table stays within MaxWorkflows rows
Room == Len(workflows) + Len(pending) < MaxWorkflows

NextStore ==
    \/ \E fields \in StoreFields, tenant_id \in Tenants :
         Room /\ CreateWorkflow(fields, tenant_id)
    \/ \E id \in 1..MaxWorkflows, fields \in StoreFields, tenant_id \in Tenants :
         UpdateNotFound(id, fields, tenant_id)
    \/ \E id \in 1..MaxWorkflows, fields \in StoreFields, tenant_id \in Tenants :
         Room /\ UpdateSelect(id, fields, tenant_id)
    \/ \E p \in 1..Len(pending) : UpdateCommit(p)

SpecStore == InitStore /\ [][NextStore]_vars

-----------------------------------------------------------------------------
(* SpecApi: POST /workflows/{workflow_id}/execute, called by two callers     *)
(* whose runs interleave at their awaits                                     *)

\* the callers whose requests are in flight together
Callers == {"c1", "c2"}

\* mutant of FindActive: the status of the row is not looked at
FindAnyStatus(workflow_id, tenant_id) ==
    {w \in 1..Len(workflows) : /\ workflows[w].id = workflow_id
                               /\ workflows[w].tenant_id = tenant_id}

\* mutant of FindActive: the tenant of the request is not compared
FindActiveAnyTenant(workflow_id, tenant_id) ==
    {w \in 1..Len(workflows) : /\ workflows[w].id = workflow_id
                               /\ workflows[w].status = "active"}

\* lines 132-140: the row with this id, of this tenant, with status ACTIVE
\* (id is the primary key: the set has at most one member)
FindActive(workflow_id, tenant_id) ==
    {w \in 1..Len(workflows) : /\ workflows[w].id = workflow_id
                               /\ workflows[w].tenant_id = tenant_id
                               /\ workflows[w].status = "active"}

\* lines 142-146: HTTPException(404, "Active workflow not found")
ExecuteNotFound(workflow_id, tenant_id) ==
    /\ FindActive(workflow_id, tenant_id) = {}
    /\ response' = [kind |-> "Active workflow not found", id |-> 0]
    /\ UNCHANGED <<others, workflows, executions, logs, runs, pending, origin, now>>

\* lines 148-154: the service is called with the row found and the tenant of
\* the request. No handler changes the id, the steps or the tenant of a row,
\* so the select and the insert of the execution are taken as one step.
ExecuteFound(workflow_id, input_data, tenant_id) ==
    \E w \in FindActive(workflow_id, tenant_id) :
        ExecuteWorkflow(w, input_data, tenant_id)

\* get_execution_logs, lines 208-223: the log rows with this execution id
\* and this tenant, ordered by timestamp (the order of the commits)
GetExecutionLogs(execution_id, tenant_id) ==
    SelectSeq(logs, LAMBDA row : row.execution_id = execution_id /\ row.tenant_id = tenant_id)

\* the steps of the workflows of the table
LeadSteps ==
    << HttpStep(<<"http://crm/", "{{ input.foo }}">>, "resp"),
       ConditionStep(Comparison("gt", Variable(<<"input", "score">>), Literal(IntVal(80))), "passed") >>

NotifySteps == << DelayStep(IntVal(1)), BaseStep("approval", Absent) >>

\* row 1 was created active and then updated to the draft of row 2; row 3 is
\* a workflow of the other tenant
InitApi ==
    /\ workflows =
         << [id |-> 1, tenant_id |-> "t1", name |-> "wf", steps |-> LeadSteps,
             status |-> "active", version |-> 1, is_latest |-> FALSE,
             created_at |-> 1, updated_at |-> 2],
            [id |-> 2, tenant_id |-> "t1", name |-> "wf", steps |-> LeadSteps,
             status |-> "draft", version |-> 2, is_latest |-> TRUE,
             created_at |-> 2, updated_at |-> 2],
            [id |-> 3, tenant_id |-> "t2", name |-> "wf", steps |-> NotifySteps,
             status |-> "active", version |-> 1, is_latest |-> TRUE,
             created_at |-> 3, updated_at |-> 3] >>
    /\ executions = <<>>
    /\ logs = <<>>
    /\ runs = <<>>
    /\ pending = <<>>
    /\ origin = <<1, 1, 3>>
    /\ now = 4
    /\ response = [kind |-> "none", id |-> 0]
    /\ OthersIdle

\* the ids a request may name: those of the table and one of no row
RequestIds == 1..(Len(workflows) + 1)

NextApi ==
    \/ \E id \in RequestIds, tenant_id \in Tenants : ExecuteNotFound(id, tenant_id)
    \/ \E id \in RequestIds, input_data \in Inputs, tenant_id \in Tenants :
         Len(executions) < Cardinality(Callers) /\ ExecuteFound(id, input_data, tenant_id)
    \/ \E e \in 1..Len(runs) : StepBegin(e)
    \/ \E e \in 1..Len(runs) : Complete(e)
    \/ \E e \in 1..Len(runs) : DispatchInvalid(e)
    \/ \E e \in 1..Len(runs) : DispatchSync(e)
    \/ \E e \in 1..Len(runs) : DispatchAwait(e)
    \/ \E e \in 1..Len(runs) : \E outcome \in HttpOutcomes : HttpResponse(e, outcome)
    \/ \E e \in 1..Len(runs) : SleepDone(e)
    \/ \E e \in 1..Len(runs) : Reraise(e)
    \/ \E e \in 1..Len(runs) : ReturnFailed(e)

SpecApi == InitApi /\ [][NextApi]_vars

-----------------------------------------------------------------------------
(* SpecFault: one call of execute_workflow in which any commit may fail.     *)
(* A commit that fails raises and writes nothing, and the session forgets    *)
(* what it was to write. Whether the session then serves the next commit is  *)
(* not decided by execute_workflow: both outcomes are taken.                 *)

\* str(e) of the error a failed commit raises
CommitError == "commit failed"

\* line 44 raises: no row is inserted and the error reaches the caller (the
\* commit is before the try of line 46)
InsertFails ==
    /\ executions = <<>>
    /\ response' = [kind |-> "raised", id |-> 0]
    /\ UNCHANGED <<others, workflows, executions, logs, runs, pending, origin, now>>

\* line 92 raises: the commit is inside the try of line 46 and outside the
\* try of the loop, so the error goes to the handler of execute_workflow
CurrentStepCommitFails(e) ==
    /\ runs[e].pc = "loop"
    /\ runs[e].i < Len(runs[e].workflow.steps)
    /\ runs' = [runs EXCEPT ![e].exc = Raise(CommitError), ![e].pc = "raise"]
    /\ UNCHANGED <<others, workflows, executions, logs, pending, origin, now, response>>

\* what the handler of the step of execution e may give where the run stands
OutcomesAt(e) ==
    LET step == CurrentStepOf(runs[e])
        h == HandlerStart(step, runs[e].context)
    IN  CASE runs[e].pc = "dispatch" ->
               IF ToStepType(step).ok /\ h.kind = "done" THEN {h.res} ELSE {}
          [] runs[e].pc = "await_http" -> HttpOutcomes
          [] runs[e].pc = "await_sleep" ->
               {Return(IF step.type = "email" THEN ExecuteEmail(step, runs[e].context).val
                       ELSE NoneVal)}
          [] OTHER -> {}

\* the commit of _log_step (line 254) raises in the loop. After a result
\* (line 115) the error is raised inside the try, and the except clause is
\* about to log it (line 126); after a failure (line 126) it is raised
\* inside the except clause and leaves _execute_steps. The result is in vars
\* already (line 112).
StepLogCommitFails(e, outcome) ==
    /\ outcome \in OutcomesAt(e)
    /\ runs' = [runs EXCEPT
                  ![e].context.vars =
                       IF outcome.ok THEN StoreResult(@, CurrentStepOf(runs[e]), outcome.val) ELSE @,
                  ![e].exc = Raise(CommitError),
                  ![e].pc = IF outcome.ok THEN "log_failure" ELSE "raise"]
    /\ UNCHANGED <<others, workflows, executions, logs, pending, origin, now, response>>

\* lines 124-134 on the commit error of line 115: the failure row is
\* committed and the error is re-raised
FailureLogged(e) ==
    /\ runs[e].pc = "log_failure"
    /\ StepFailed(e, runs[e].exc.err)

\* the commit of the failure row raises too
FailureLogFails(e) ==
    /\ runs[e].pc = "log_failure"
    /\ runs' = [runs EXCEPT ![e].pc = "raise"]
    /\ UNCHANGED <<others, workflows, executions, logs, pending, origin, now, response>>

\* lines 55-72 raise: the commit of the handler's log row fails, or the
\* session refuses the handler. Nothing is written, the caller gets the error.
HandlerFails(e) ==
    /\ \/ runs[e].pc = "raise"
       \/ runs[e].pc = "dispatch" /\ ~ToStepType(CurrentStepOf(runs[e])).ok
    /\ runs' = [runs EXCEPT ![e].exc = Raise(CommitError), ![e].pc = "propagated"]
    /\ response' = [kind |-> "raised", id |-> e]
    /\ UNCHANGED <<others, workflows, executions, logs, pending, origin, now>>

\* mutant of FinalCommitFails: the commit writes the row and then raises
FinalCommitFailsWritten(e) ==
    /\ \/ runs[e].pc = "loop" /\ runs[e].i = Len(runs[e].workflow.steps)
       \/ runs[e].pc = "final"
    /\ executions' = IF runs[e].pc = "loop"
                     THEN [executions EXCEPT ![e] = MarkCompleted(@, runs[e].context.vars)]
                     ELSE executions
    /\ runs' = [runs EXCEPT ![e].exc = Raise(CommitError), ![e].pc = "propagated"]
    /\ response' = [kind |-> "raised", id |-> e]
    /\ UNCHANGED <<others, workflows, logs, pending, origin, now>>

\* line 74 raises, after the success path (lines 51-53) or after the handler:
\* it is outside the try, the caller gets the error
FinalCommitFails(e) ==
    /\ \/ runs[e].pc = "loop" /\ runs[e].i = Len(runs[e].workflow.steps)
       \/ runs[e].pc = "final"
    /\ runs' = [runs EXCEPT ![e].exc = Raise(CommitError), ![e].pc = "propagated"]
    /\ response' = [kind |-> "raised", id |-> e]
    /\ UNCHANGED <<others, workflows, executions, logs, pending, origin, now>>

FaultPool ==
    { HttpStep(<<"http://crm/", "{{ input.foo }}">>, "resp"),
      ConditionStep(Comparison("gt", Variable(<<"input", "score">>), Literal(IntVal(80))), "passed"),
      DelayStep(IntVal(1)),
      BaseStep("approval", Absent) }

FaultLists == UNION {[1..n -> FaultPool] : n \in 0..MaxSteps}

InitFault ==
    /\ \E steps \in FaultLists :
         workflows = << [id |-> 1, tenant_id |-> "t1", name |-> "wf", steps |-> steps,
                         status |-> "active", version |-> 1, is_latest |-> TRUE,
                         created_at |-> 1, updated_at |-> 1] >>
    /\ executions = <<>>
    /\ logs = <<>>
    /\ runs = <<>>
    /\ pending = <<>>
    /\ origin = <<1>>
    /\ now = 2
    /\ response = [kind |-> "none", id |-> 0]
    /\ OthersIdle

NextFault ==
    \/ Call
    \/ InsertFails
    \/ \E e \in 1..Len(runs) : StepBegin(e)
    \/ \E e \in 1..Len(runs) : CurrentStepCommitFails(e)
    \/ \E e \in 1..Len(runs) : Complete(e)
    \/ \E e \in 1..Len(runs) : DispatchInvalid(e)
    \/ \E e \in 1..Len(runs) : DispatchSync(e)
    \/ \E e \in 1..Len(runs) : DispatchAwait(e)
    \/ \E e \in 1..Len(runs) : \E outcome \in HttpOutcomes : HttpResponse(e, outcome)
    \/ \E e \in 1..Len(runs) : SleepDone(e)
    \/ \E e \in 1..Len(runs) : \E outcome \in OutcomesAt(e) : StepLogCommitFails(e, outcome)
    \/ \E e \in 1..Len(runs) : FailureLogged(e)
    \/ \E e \in 1..Len(runs) : FailureLogFails(e)
    \/ \E e \in 1..Len(runs) : Reraise(e)
    \/ \E e \in 1..Len(runs) : HandlerFails(e)
    \/ \E e \in 1..Len(runs) : ReturnFailed(e)
    \/ \E e \in 1..Len(runs) : FinalCommitFails(e)

SpecFault == InitFault /\ [][NextFault]_vars

-----------------------------------------------------------------------------
(* SpecCond: one call of execute_workflow on a workflow whose second step is *)
(* a condition on two literals; the first step and the input make the        *)
(* contexts the condition is evaluated in                                    *)

LiteralValues ==
    { IntVal(5), IntVal(3), BoolVal(TRUE), NoneVal,
      StrVal(<<"{{ input.foo }}">>), StrVal(<<"bar">>) }

Operators == {"eq", "neq", "gt", "gte", "lt", "lte", "contains"}

\* the comparisons of two literals (Ordering does not cover two strings)
LiteralComparisons ==
    { Comparison(op, Literal(l), Literal(r)) :
        <<op, l, r>> \in { x \in Operators \X LiteralValues \X LiteralValues :
                             x[1] \in {"eq", "neq", "contains"} \/ x[2].t # "str" \/ x[3].t # "str" } }

\* the steps before the condition: one that stores an answer in vars, one
\* that stores nothing, one that stops the run
Preludes ==
    { HttpStep(<<"http://crm/", "{{ input.foo }}">>, "resp"),
      EmailStep,
      BaseStep("approval", Absent) }

InitCond ==
    /\ \E first \in Preludes, c \in LiteralComparisons :
         workflows = << [id |-> 1, tenant_id |-> "t1", name |-> "wf",
                         steps |-> <<first, ConditionStep(c, "passed")>>,
                         status |-> "active", version |-> 1, is_latest |-> TRUE,
                         created_at |-> 1, updated_at |-> 1] >>
    /\ executions = <<>>
    /\ logs = <<>>
    /\ runs = <<>>
    /\ pending = <<>>
    /\ origin = <<1>>
    /\ now = 2
    /\ response = [kind |-> "none", id |-> 0]
    /\ OthersIdle

SpecCond == InitCond /\ [][Next]_vars

-----------------------------------------------------------------------------
(* SpecCompare: one call of execute_workflow on a workflow whose second step *)
(* is a condition on literals and variables                                  *)

\* an operand whose type is neither variable nor literal
ConstantOperand == [type |-> "constant", value |-> IntVal(80), path |-> <<>>]

\* the operands that may resolve to a string
StrOperands == { Literal(StrVal(<<"bar">>)), Variable(<<"input", "foo">>) }

Operands ==
    { Literal(IntVal(80)), Literal(IntVal(85)),
      Variable(<<"input", "score">>),
      Variable(<<"vars", "resp">>),
      Variable(<<"vars", "resp", "id">>),
      Variable(<<"ctx", "score">>),
      ConstantOperand } \cup StrOperands

\* the conditions of the second step: every operator on every two operands
\* (Ordering does not cover two strings), and one of another condition type
Conditions ==
    { Comparison(x[1], x[2], x[3]) :
        x \in { y \in Operators \X Operands \X Operands :
                  y[1] \in {"eq", "neq", "contains"} \/ y[2] \notin StrOperands
                                                     \/ y[3] \notin StrOperands } }
    \cup { [Comparison("gt", Literal(IntVal(85)), Literal(IntVal(80))) EXCEPT !.type = "and"] }

InitCompare ==
    /\ \E first \in Preludes, c \in Conditions :
         workflows = << [id |-> 1, tenant_id |-> "t1", name |-> "wf",
                         steps |-> <<first, ConditionStep(c, "passed")>>,
                         status |-> "active", version |-> 1, is_latest |-> TRUE,
                         created_at |-> 1, updated_at |-> 1] >>
    /\ executions = <<>>
    /\ logs = <<>>
    /\ runs = <<>>
    /\ pending = <<>>
    /\ origin = <<1>>
    /\ now = 2
    /\ response = [kind |-> "none", id |-> 0]
    /\ OthersIdle

SpecCompare == InitCompare /\ [][Next]_vars

-----------------------------------------------------------------------------
(* SpecInterpolate: one call of execute_workflow on a workflow whose second  *)
(* step interpolates a template, on inputs whose values may themselves be    *)
(* placeholder texts                                                         *)

Chunks ==
    { "http://crm/", Placeholder("input", "foo"), Placeholder("vars", "resp"),
      Placeholder("input", "nokey"), Placeholder("vars", "foo") }

Templates == UNION {[1..n -> Chunks] : n \in 0..MaxChunks}

InterpolateInputs ==
    { EmptyDict,
      << <<"foo", StrVal(<<"bar">>)>> >>,
      << <<"foo", StrVal(<<Placeholder("vars", "resp")>>)>> >>,
      << <<"foo", StrVal(<<Placeholder("input", "score")>>)>>, <<"score", IntVal(85)>> >>,
      << <<"score", IntVal(85)>>, <<"foo", StrVal(<<Placeholder("input", "score")>>)>> >> }

\* the second step: a request to the template, or a transform of it
Interpolating ==
    { HttpStep(t, Absent) : t \in Templates }
    \cup { FunctionStep("transform", StrVal(t), Absent) : t \in Templates }

InitInterpolate ==
    /\ \E first \in Preludes, second \in Interpolating :
         workflows = << [id |-> 1, tenant_id |-> "t1", name |-> "wf",
                         steps |-> <<first, second>>,
                         status |-> "active", version |-> 1, is_latest |-> TRUE,
                         created_at |-> 1, updated_at |-> 1] >>
    /\ executions = <<>>
    /\ logs = <<>>
    /\ runs = <<>>
    /\ pending = <<>>
    /\ origin = <<1>>
    /\ now = 2
    /\ response = [kind |-> "none", id |-> 0]
    /\ OthersIdle

CallInterpolate ==
    \E input_data \in InterpolateInputs :
        /\ executions = <<>>
        /\ ExecuteWorkflow(1, input_data, workflows[1].tenant_id)

NextInterpolate ==
    \/ CallInterpolate
    \/ \E e \in 1..Len(runs) : StepBegin(e)
    \/ \E e \in 1..Len(runs) : Complete(e)
    \/ \E e \in 1..Len(runs) : DispatchInvalid(e)
    \/ \E e \in 1..Len(runs) : DispatchSync(e)
    \/ \E e \in 1..Len(runs) : DispatchAwait(e)
    \/ \E e \in 1..Len(runs) : \E outcome \in HttpOutcomes : HttpResponse(e, outcome)
    \/ \E e \in 1..Len(runs) : SleepDone(e)
    \/ \E e \in 1..Len(runs) : Reraise(e)
    \/ \E e \in 1..Len(runs) : ReturnFailed(e)

SpecInterpolate == InitInterpolate /\ [][NextInterpolate]_vars

------------------------------------------------------------------------------
(* The communication hub's campaign service.  A call of the service is the  *)
(* resumption after its select, with the synchronous code up to the commit  *)
(* it awaits, and then one action per later await.  Every request has its   *)
(* own session; the task start_campaign adds runs once its request has      *)
(* returned.                                                                *)

\* commits the campaign service may make
MaxCommits == 4

CampaignStatus == {"draft", "scheduled", "running", "paused", "completed", "cancelled"}

\* scalar_one_or_none() without a row, and the tenant_id None of the task
NoCampaign == [id |-> 0]
NoTenant == "None"

CampaignRow(id, tenant_id) ==
    [id |-> id, tenant_id |-> tenant_id, status |-> "draft",
     started_at |-> NoTime, completed_at |-> NoTime, total_recipients |-> 0,
     deleted |-> FALSE]

GetCampaign(campaign_id, tenant_id) ==
    IF /\ campaign_id \in 1..Len(campaigns)
       /\ ~campaigns[campaign_id].deleted
       /\ campaigns[campaign_id].tenant_id = tenant_id
    THEN campaigns[campaign_id]
    ELSE NoCampaign

Answer(kind, id, detail) == [kind |-> kind, id |-> id, detail |-> detail]

Request(op, campaign, status) == [op |-> op, pc |-> "commit", campaign |-> campaign,
                                  status |-> status]

Without(p) == SubSeq(pending, 1, p - 1) \o SubSeq(pending, p + 1, Len(pending))

\* the UPDATE or DELETE of a commit finds its row
Persistent(p) == ~campaigns[pending[p].campaign.id].deleted

\* a call whose campaign is not found: None, or False of delete_campaign
NotFound(op, campaign_id, tenant_id) ==
    /\ GetCampaign(campaign_id, tenant_id) = NoCampaign
    /\ response' = Answer(op, campaign_id, "None")
    /\ UNCHANGED <<engine, pending, now, others>>

\* start_campaign that takes a campaign of any status
StartCampaignUnguarded(campaign_id, tenant_id) ==
    LET campaign == GetCampaign(campaign_id, tenant_id) IN
    /\ campaign # NoCampaign
    /\ pending' = Append(pending, Request("start_campaign", campaign, "running"))
    /\ UNCHANGED <<engine, now, response, others>>

StartCampaign(campaign_id, tenant_id) ==
    LET campaign == GetCampaign(campaign_id, tenant_id) IN
    /\ campaign # NoCampaign
    /\ IF campaign.status \notin {"draft", "paused"}
       THEN /\ response' = Answer("Cannot start campaign", campaign_id,
                                  campaign.status)
            /\ UNCHANGED pending
       ELSE /\ pending' = Append(pending, Request("start_campaign", campaign, "running"))
            /\ UNCHANGED response
    /\ UNCHANGED <<engine, now, others>>

PauseCampaign(campaign_id, tenant_id) ==
    LET campaign == GetCampaign(campaign_id, tenant_id) IN
    /\ campaign # NoCampaign
    /\ IF campaign.status # "running"
       THEN /\ response' = Answer("Cannot pause campaign", campaign_id,
                                  campaign.status)
            /\ UNCHANGED pending
       ELSE /\ pending' = Append(pending, Request("pause_campaign", campaign, "paused"))
            /\ UNCHANGED response
    /\ UNCHANGED <<engine, now, others>>

StopCampaign(campaign_id, tenant_id) ==
    LET campaign == GetCampaign(campaign_id, tenant_id) IN
    /\ campaign # NoCampaign
    /\ pending' = Append(pending, Request("stop_campaign", campaign, "completed"))
    /\ UNCHANGED <<engine, now, response, others>>

DeleteCampaign(campaign_id, tenant_id) ==
    LET campaign == GetCampaign(campaign_id, tenant_id) IN
    /\ campaign # NoCampaign
    /\ pending' = Append(pending, Request("delete_campaign", campaign, campaign.status))
    /\ UNCHANGED <<engine, now, response, others>>

UpdateCampaign(campaign_id, status, tenant_id) ==
    LET campaign == GetCampaign(campaign_id, tenant_id) IN
    /\ campaign # NoCampaign
    /\ pending' = Append(pending, Request("update_campaign", campaign, status))
    /\ UNCHANGED <<engine, now, response, others>>

\* the commit of a request whose row another request has deleted
CommitStale(p) ==
    /\ pending[p].pc \in {"commit", "refresh"}
    /\ ~Persistent(p)
    /\ pending' = Without(p)
    /\ response' = Answer("raised", pending[p].campaign.id, pending[p].op)
    /\ UNCHANGED <<engine, now, others>>

StartCommit(p) ==
    LET c == pending[p].campaign.id IN
    /\ pending[p].op = "start_campaign" /\ pending[p].pc = "commit"
    /\ Persistent(p)
    /\ campaigns' = [campaigns EXCEPT ![c].status = "running", ![c].started_at = now]
    /\ now' = now + 1
    /\ pending' = [pending EXCEPT ![p].pc = "refresh"]
    /\ UNCHANGED <<engine, response, background, graph, manager>>

\* the refresh of start_campaign, add_task and the return
StartRefresh(p) ==
    LET c == pending[p].campaign.id IN
    /\ pending[p].op = "start_campaign" /\ pending[p].pc = "refresh"
    /\ Persistent(p)
    /\ background' = Append(background, [campaign_id |-> c, pc |-> "queued"])
    /\ pending' = Without(p)
    /\ response' = Answer("start_campaign", c, campaigns[c].status)
    /\ UNCHANGED <<engine, now, campaigns, graph, manager>>

PauseCommit(p) ==
    LET c == pending[p].campaign.id IN
    /\ pending[p].op = "pause_campaign" /\ pending[p].pc = "commit"
    /\ Persistent(p)
    /\ campaigns' = [campaigns EXCEPT ![c].status = "paused"]
    /\ now' = now + 1
    /\ pending' = Without(p)
    /\ response' = Answer("pause_campaign", c, "paused")
    /\ UNCHANGED <<engine, background, graph, manager>>

StopCommit(p) ==
    LET c == pending[p].campaign.id IN
    /\ pending[p].op = "stop_campaign" /\ pending[p].pc = "commit"
    /\ Persistent(p)
    /\ campaigns' = [campaigns EXCEPT ![c].status = "completed", ![c].completed_at = now]
    /\ now' = now + 1
    /\ pending' = Without(p)
    /\ response' = Answer("stop_campaign", c, "completed")
    /\ UNCHANGED <<engine, background, graph, manager>>

DeleteCommit(p) ==
    LET c == pending[p].campaign.id IN
    /\ pending[p].op = "delete_campaign" /\ pending[p].pc = "commit"
    /\ Persistent(p)
    /\ campaigns' = [campaigns EXCEPT ![c].deleted = TRUE]
    /\ now' = now + 1
    /\ pending' = Without(p)
    /\ response' = Answer("delete_campaign", c, "True")
    /\ UNCHANGED <<engine, background, graph, manager>>

UpdateCampaignCommit(p) ==
    LET c == pending[p].campaign.id IN
    /\ pending[p].op = "update_campaign" /\ pending[p].pc = "commit"
    /\ Persistent(p)
    /\ campaigns' = [campaigns EXCEPT ![c].status = pending[p].status]
    /\ now' = now + 1
    /\ pending' = Without(p)
    /\ response' = Answer("update_campaign", c, pending[p].status)
    /\ UNCHANGED <<engine, background, graph, manager>>

\* _execute_campaign: the lookup with tenant_id None, then, with a campaign,
\* the count of the contacts (none: _get_campaign_contacts returns []), the
\* loop over no batch and the completion of a campaign still running
ExecuteCampaign(b) ==
    LET c == background[b].campaign_id
        campaign == GetCampaign(c, NoTenant)
    IN
    \/ /\ background[b].pc = "queued"
       /\ campaign = NoCampaign
       /\ background' = [background EXCEPT ![b].pc = "not found"]
       /\ UNCHANGED <<campaigns, now>>
    \/ /\ background[b].pc = "queued"
       /\ campaign # NoCampaign
       /\ campaigns' = [campaigns EXCEPT ![c].total_recipients = 0]
       /\ now' = now + 1
       /\ background' = [background EXCEPT ![b].pc = "contacts"]
    \/ /\ background[b].pc = "contacts"
       /\ IF campaigns[c].status = "running"
          THEN /\ campaigns' = [campaigns EXCEPT ![c].status = "completed",
                                                 ![c].completed_at = now]
               /\ now' = now + 1
          ELSE UNCHANGED <<campaigns, now>>
       /\ background' = [background EXCEPT ![b].pc = "completed"]

ExecuteCampaignTask(b) ==
    /\ ExecuteCampaign(b)
    /\ UNCHANGED <<engine, pending, response, graph, manager>>

InitCampaign ==
    /\ workflows = <<>>
    /\ executions = <<>>
    /\ logs = <<>>
    /\ runs = <<>>
    /\ pending = <<>>
    /\ origin = <<>>
    /\ now = 1
    /\ response = Answer("none", 0, "None")
    /\ campaigns = <<CampaignRow(1, "t1")>>
    /\ background = <<>>
    /\ GraphIdle
    /\ ManagerIdle

\* the statuses a CampaignUpdate sets: those no other call of the service sets
UpdatedStatus == {"scheduled", "cancelled"}

\* every caller has one request at a time between its select and its return
Accepting == Len(pending) < Cardinality(Callers) /\ now <= MaxCommits

NextCampaign ==
    \/ \E c \in 1..Len(campaigns), t \in Tenants, op \in {"start_campaign", "pause_campaign",
                "stop_campaign", "delete_campaign", "update_campaign"} :
           NotFound(op, c, t)
    \/ \E c \in 1..Len(campaigns), t \in Tenants : Accepting /\ StartCampaign(c, t)
    \/ \E c \in 1..Len(campaigns), t \in Tenants : Accepting /\ PauseCampaign(c, t)
    \/ \E c \in 1..Len(campaigns), t \in Tenants : Accepting /\ StopCampaign(c, t)
    \/ \E c \in 1..Len(campaigns), t \in Tenants : Accepting /\ DeleteCampaign(c, t)
    \/ \E c \in 1..Len(campaigns), t \in Tenants, s \in UpdatedStatus :
           Accepting /\ UpdateCampaign(c, s, t)
    \/ \E p \in 1..Len(pending) : CommitStale(p)
    \/ \E p \in 1..Len(pending) : StartCommit(p)
    \/ \E p \in 1..Len(pending) : StartRefresh(p)
    \/ \E p \in 1..Len(pending) : PauseCommit(p)
    \/ \E p \in 1..Len(pending) : StopCommit(p)
    \/ \E p \in 1..Len(pending) : DeleteCommit(p)
    \/ \E p \in 1..Len(pending) : UpdateCampaignCommit(p)
    \/ \E b \in 1..Len(background) : ExecuteCampaignTask(b)

SpecCampaign == InitCampaign /\ [][NextCampaign]_vars

\* the event loop runs every task that add_task has queued
SpecCampaignFair ==
    SpecCampaign /\ WF_vars(\E b \in 1..Len(background) : ExecuteCampaignTask(b))

------------------------------------------------------------------------------
(* The graph engine (src/app/workflow_engine).  The execute endpoint awaits  *)
(* nothing that suspends it, so it is one action; the task it adds is        *)
(* WorkflowExecutor.execute_workflow, which is suspended once, in arun.      *)

\* the tasks the execute endpoint may add
MaxTasks == 2

\* a step of a definition, a dict: keys are the keys it has
GraphStep(keys, id) == [keys |-> keys, id |-> id, type |-> "SEND_EMAIL"]

WorkflowDefinition(id, steps) ==
    [id |-> id, steps |-> steps, trigger |-> [type |-> "MANUAL", conditions |-> <<>>]]

\* Optional fields of a WorkflowExecution that are None
Unset == [set |-> FALSE, val |-> ""]
SetTo(v) == [set |-> TRUE, val |-> v]

\* WorkflowExecution(workflow_id=...): id and started_at by default_factory
WorkflowExecution(id, workflow_id) ==
    [id |-> id, workflow_id |-> workflow_id, status |-> "PENDING",
     result |-> Unset, error |-> Unset, started_at |-> now, completed_at |-> NoTime]

NoExecution == [id |-> 0]

\* uuid.uuid4(): an id no object in the state has
Issued ==
    {background[b].announced : b \in 1..Len(background)}
        \cup {background[b].execution.id : b \in 1..Len(background)}
        \cup {published[k].execution_id : k \in 1..Len(published)}

Uuid4 == CHOOSE n \in 1..(Cardinality(Issued) + 1) : n \notin Issued

\* WorkflowStorage.get_workflow and get_execution: the document, or None
GetWorkflow(workflow_id) ==
    {workflows_collection[k] : k \in {j \in 1..Len(workflows_collection) :
                                          workflows_collection[j].id = workflow_id}}

GetExecutionDocument(execution_id) ==
    {executions_collection[k] : k \in {j \in 1..Len(executions_collection) :
                                           executions_collection[j].id = execution_id}}

\* _build_state_graph: step["id"] and step["type"] of every step, then the
\* library's add_node and add_edge, which may raise
BuildStateGraph(workflow) ==
    IF \E k \in 1..Len(workflow.steps) : ~({"id", "type"} \subseteq workflow.steps[k].keys)
    THEN {Raise("KeyError")}
    ELSE {Return(NoneVal), Raise("StateGraph")}

\* arun: a result dict, None, or an exception of the graph
ArunOutcomes == {SetTo("result"), Unset}

EndpointNotFound(workflow_id) ==
    /\ GetWorkflow(workflow_id) = {}
    /\ response' = [kind |-> "Workflow not found", id |-> 0]
    /\ UNCHANGED <<engine, pending, now, campaigns, background, graph, manager>>

\* the execute endpoint whose publish raises: 500, and its task is dropped
EndpointPublishFails(workflow_id) ==
    /\ GetWorkflow(workflow_id) # {}
    /\ response' = [kind |-> "500", id |-> 0]
    /\ UNCHANGED <<engine, pending, now, campaigns, background, graph, manager>>

ExecuteEndpoint(workflow_id) ==
    /\ GetWorkflow(workflow_id) # {}
    /\ LET workflow == CHOOSE w \in GetWorkflow(workflow_id) : TRUE
           execution == WorkflowExecution(Uuid4, workflow_id)
       IN /\ background' = Append(background,
                 [workflow |-> workflow, announced |-> execution.id, pc |-> "queued",
                  execution |-> NoExecution])
          /\ published' = Append(published,
                 [workflow_id |-> workflow_id, execution_id |-> execution.id,
                  event |-> "workflow.triggered"])
          /\ response' = [kind |-> "execution_id", id |-> execution.id]
    /\ UNCHANGED <<engine, pending, now, campaigns, workflows_collection,
                   executions_collection, manager>>

GetExecution(execution_id) ==
    /\ IF GetExecutionDocument(execution_id) = {}
       THEN response' = [kind |-> "Execution not found", id |-> execution_id]
       ELSE response' = [kind |-> "execution", id |-> execution_id]
    /\ UNCHANGED <<engine, pending, now, campaigns, background, graph, manager>>

Finished(execution, status, result, error) ==
    [execution EXCEPT !.status = status, !.result = result, !.error = error,
                      !.completed_at = now]

\* execute_workflow up to arun, with the exception of the build left uncaught
GraphExecuteWorkflowUncaught(b, built) ==
    LET execution == WorkflowExecution(Uuid4, background[b].workflow.id) IN
    /\ background[b].pc = "queued"
    /\ built \in BuildStateGraph(background[b].workflow)
    /\ IF built.ok
       THEN /\ background' = [background EXCEPT ![b].pc = "arun",
                                  ![b].execution = [execution EXCEPT !.status = "RUNNING"]]
            /\ UNCHANGED now
       ELSE /\ background' = [background EXCEPT ![b].pc = "raised",
                                  ![b].execution = execution]
            /\ UNCHANGED now
    /\ UNCHANGED <<engine, pending, response, campaigns, graph, manager>>

\* execute_workflow up to arun: the execution, the graph, the variables
GraphExecuteWorkflow(b, built) ==
    LET execution == WorkflowExecution(Uuid4, background[b].workflow.id) IN
    /\ background[b].pc = "queued"
    /\ built \in BuildStateGraph(background[b].workflow)
    /\ IF built.ok
       THEN /\ background' = [background EXCEPT ![b].pc = "arun",
                                  ![b].execution = [execution EXCEPT !.status = "RUNNING"]]
            /\ UNCHANGED now
       ELSE /\ background' = [background EXCEPT ![b].pc = "returned",
                                  ![b].execution =
                                      Finished(execution, "FAILED", Unset, SetTo(built.err))]
            /\ now' = now + 1
    /\ UNCHANGED <<engine, pending, response, campaigns, graph, manager>>

ArunReturns(b, result) ==
    /\ background[b].pc = "arun"
    /\ background' = [background EXCEPT ![b].pc = "returned",
                          ![b].execution = Finished(@, "COMPLETED", result, Unset)]
    /\ now' = now + 1
    /\ UNCHANGED <<engine, pending, response, campaigns, graph, manager>>

ArunRaises(b) ==
    /\ background[b].pc = "arun"
    /\ background' = [background EXCEPT ![b].pc = "returned",
                          ![b].execution = Finished(@, "FAILED", Unset, SetTo("arun"))]
    /\ now' = now + 1
    /\ UNCHANGED <<engine, pending, response, campaigns, graph, manager>>

\* the definitions create_workflow has saved, with their triggers registered
Sound == WorkflowDefinition("w1", <<GraphStep({"id", "type"}, "a"), GraphStep({"id", "type"}, "b")>>)
Unsound == WorkflowDefinition("w2", <<GraphStep({"id", "type"}, "a"), GraphStep({"type"}, "")>>)

InitGraph ==
    /\ workflows = <<>>
    /\ executions = <<>>
    /\ logs = <<>>
    /\ runs = <<>>
    /\ pending = <<>>
    /\ origin = <<>>
    /\ now = 1
    /\ response = [kind |-> "none", id |-> 0]
    /\ campaigns = <<>>
    /\ background = <<>>
    /\ workflows_collection = <<Sound, Unsound>>
    /\ executions_collection = <<>>
    /\ published = <<>>
    /\ triggers = << <<"w1", <<Sound.trigger>> >>, <<"w2", <<Unsound.trigger>> >> >>
    /\ event_handlers = <<>>
    /\ evaluation = NoEvaluation
    /\ dispatched = <<>>

WorkflowIds == {"w1", "w2", "w3"}

NextGraph ==
    \/ \E w \in WorkflowIds : EndpointNotFound(w)
    \/ \E w \in WorkflowIds : Len(background) < MaxTasks /\ EndpointPublishFails(w)
    \/ \E w \in WorkflowIds : Len(background) < MaxTasks /\ ExecuteEndpoint(w)
    \/ \E id \in 1..(2 * MaxTasks) : GetExecution(id)
    \/ \E b \in 1..Len(background) : \E built \in {Return(NoneVal), Raise("KeyError"), Raise("StateGraph")} :
           GraphExecuteWorkflow(b, built)
    \/ \E b \in 1..Len(background) : \E result \in ArunOutcomes : ArunReturns(b, result)
    \/ \E b \in 1..Len(background) : ArunRaises(b)

SpecGraph == InitGraph /\ [][NextGraph]_vars

------------------------------------------------------------------------------
(* The trigger manager of the graph engine.  register_trigger and           *)
(* register_event_handler are synchronous; evaluate_event is suspended at   *)
(* every handler it awaits, so a registration can come between two calls.   *)

\* the triggers that are registered
MaxTriggers == 2

TriggerType == {"CONTACT_CREATED", "INTERACTION_LOGGED", "LEAD_SCORE_CHANGED",
                "TIME_BASED", "MANUAL", "WEBHOOK"}

TriggerCondition(field, operator, value) ==
    [field |-> field, operator |-> operator, value |-> value]

WorkflowTrigger(type, conditions) == [type |-> type, conditions |-> conditions]

\* event_data.get(field)
EventGet(event_data, field) ==
    IF HasKey(event_data, field) THEN DictGet(event_data, field) ELSE NoneVal

\* value in field_value, of two str: texts are compared chunk by chunk
PyIn(value, field_value) ==
    IF value.t = "str" /\ field_value.t = "str"
    THEN Return(BoolVal(\E i \in 0..Len(field_value.s) :
                            /\ i + Len(value.s) <= Len(field_value.s)
                            /\ SubSeq(field_value.s, i + 1, i + Len(value.s)) = value.s))
    ELSE Raise("TypeError")

\* the test of one condition: whether it returns False, or what it raises
Fails(condition, event_data) ==
    LET field_value == EventGet(event_data, condition.field) IN
    CASE field_value = NoneVal -> Return(BoolVal(TRUE))
      [] condition.operator = "equals" ->
            Return(BoolVal(~PyEq(field_value, condition.value)))
      [] condition.operator = "not_equals" ->
            Return(BoolVal(PyEq(field_value, condition.value)))
      [] condition.operator = "greater_than" ->
            Ordering("<=", field_value, condition.value)
      [] condition.operator = "less_than" ->
            Ordering(">=", field_value, condition.value)
      [] condition.operator = "contains" ->
            LET found == PyIn(condition.value, field_value) IN
            IF found.ok THEN Return(BoolVal(found.val.n = 0)) ELSE found
      [] OTHER -> Return(BoolVal(FALSE))

RECURSIVE EvaluateConditions(_, _)
EvaluateConditions(conditions, event_data) ==
    IF conditions = <<>> THEN Return(BoolVal(TRUE))
    ELSE LET failed == Fails(Head(conditions), event_data) IN
         IF ~failed.ok THEN failed
         ELSE IF failed.val.n = 1 THEN Return(BoolVal(FALSE))
         ELSE EvaluateConditions(Tail(conditions), event_data)

\* the inner loop of evaluate_event over the triggers of one workflow: the
\* workflow id once for every trigger of the type whose conditions are met
RECURSIVE MatchesOf(_, _, _, _)
MatchesOf(workflow_id, trigger_list, trigger_type, event_data) ==
    IF trigger_list = <<>> THEN Return(<<>>)
    ELSE LET trigger == Head(trigger_list)
             rest == MatchesOf(workflow_id, Tail(trigger_list), trigger_type, event_data)
             met == IF trigger.type = trigger_type
                    THEN EvaluateConditions(trigger.conditions, event_data)
                    ELSE Return(BoolVal(FALSE))
         IN IF ~met.ok THEN met
            ELSE IF ~rest.ok THEN rest
            ELSE IF met.val.n = 1 THEN Return(<<workflow_id>> \o rest.val)
            ELSE rest

\* the outer loop of evaluate_event: matching_workflows, or the exception
RECURSIVE MatchingWorkflows(_, _, _)
MatchingWorkflows(registry, trigger_type, event_data) ==
    IF registry = <<>> THEN Return(<<>>)
    ELSE LET first == MatchesOf(Head(registry)[1], Head(registry)[2], trigger_type, event_data)
             rest == MatchingWorkflows(Tail(registry), trigger_type, event_data)
         IN IF ~first.ok THEN first
            ELSE IF ~rest.ok THEN rest
            ELSE Return(first.val \o rest.val)

\* self._event_handlers[trigger_type], <<>> when the type has no handler
HandlersOf(trigger_type) ==
    IF HasKey(event_handlers, trigger_type) THEN DictGet(event_handlers, trigger_type)
    ELSE <<>>

Registered == IF triggers = <<>> THEN 0
              ELSE LET RECURSIVE Sum(_)
                       Sum(k) == IF k = 0 THEN 0 ELSE Len(triggers[k][2]) + Sum(k - 1)
                   IN Sum(Len(triggers))

RegisterTrigger(workflow_id, trigger) ==
    /\ Registered < MaxTriggers
    /\ triggers' = DictSet(triggers, workflow_id,
                           IF HasKey(triggers, workflow_id)
                           THEN Append(DictGet(triggers, workflow_id), trigger)
                           ELSE <<trigger>>)
    /\ UNCHANGED <<engine, pending, now, response, campaigns, background, graph,
                   event_handlers, evaluation, dispatched>>

RegisterEventHandler(trigger_type, handler) ==
    /\ \A k \in 1..Len(HandlersOf(trigger_type)) : HandlersOf(trigger_type)[k] # handler
    /\ event_handlers' = DictSet(event_handlers, trigger_type,
                                 Append(HandlersOf(trigger_type), handler))
    /\ UNCHANGED <<engine, pending, now, response, campaigns, background, graph,
                   triggers, evaluation, dispatched>>

\* evaluate_event up to its first await, or to its end without one; the model
\* follows one call of it
EvaluateEvent(trigger_type, event_data) ==
    LET matching == MatchingWorkflows(triggers, trigger_type, event_data) IN
    /\ evaluation.pc = "none"
    /\ response.kind = "none"
    /\ IF ~matching.ok
       THEN /\ response' = [kind |-> "raised", id |-> 0]
            /\ UNCHANGED evaluation
       ELSE /\ response' = [kind |-> "evaluate_event", id |-> 0]
            /\ evaluation' =
                   [pc |-> IF HandlersOf(trigger_type) = <<>> \/ matching.val = <<>>
                           THEN "none" ELSE "handler",
                    trigger_type |-> trigger_type, event_data |-> event_data,
                    matching_workflows |-> matching.val, handler |-> 1, workflow |-> 1]
    /\ UNCHANGED <<engine, pending, now, campaigns, background, graph,
                   triggers, event_handlers, dispatched>>

\* await handler(workflow_id, event_data) returns: the next of the two loops
HandlerReturns ==
    LET handlers == HandlersOf(evaluation.trigger_type)
        last == evaluation.workflow = Len(evaluation.matching_workflows)
    IN
    /\ evaluation.pc = "handler"
    /\ dispatched' = Append(dispatched,
           [entry |-> evaluation.handler,
            handler |-> handlers[evaluation.handler],
            workflow_id |-> evaluation.matching_workflows[evaluation.workflow]])
    /\ evaluation' =
           [evaluation EXCEPT
               !.workflow = IF last THEN 1 ELSE @ + 1,
               !.handler = IF last THEN @ + 1 ELSE @,
               !.pc = IF last /\ evaluation.handler = Len(handlers) THEN "none" ELSE @]
    /\ UNCHANGED <<engine, pending, now, response, campaigns, background, graph,
                   triggers, event_handlers>>

\* await handler(workflow_id, event_data) raises: evaluate_event raises it
HandlerRaises ==
    /\ evaluation.pc = "handler"
    /\ evaluation' = [evaluation EXCEPT !.pc = "none"]
    /\ response' = [kind |-> "raised", id |-> 0]
    /\ UNCHANGED <<engine, pending, now, campaigns, background, graph,
                   triggers, event_handlers, dispatched>>

\* the triggers, handlers and events of the model
Score(operator, n) == TriggerCondition("score", operator, IntVal(n))

TriggerPool ==
    {WorkflowTrigger("LEAD_SCORE_CHANGED", <<>>),
     WorkflowTrigger("LEAD_SCORE_CHANGED", <<Score("greater_than", 80)>>),
     WorkflowTrigger("LEAD_SCORE_CHANGED",
                     <<Score("not_equals", 0),
                       TriggerCondition("source", "contains", StrVal(<<"web">>))>>),
     WorkflowTrigger("CONTACT_CREATED",
                     <<TriggerCondition("source", "equals", StrVal(<<"web">>)),
                       Score("less_than", 50)>>)}

EventPool ==
    {<< <<"score", IntVal(90)>> >>,
     << <<"score", IntVal(40)>>, <<"source", StrVal(<<"web">>)>> >>,
     << <<"score", StrVal(<<"high">>)>>, <<"source", StrVal(<<"the ", "web">>)>> >>,
     << <<"source", IntVal(1)>>, <<"score", IntVal(90)>> >>}

EventTypes == {"LEAD_SCORE_CHANGED", "CONTACT_CREATED"}

HandlerPool == {"h1", "h2"}

InitTriggers ==
    /\ workflows = <<>>
    /\ executions = <<>>
    /\ logs = <<>>
    /\ runs = <<>>
    /\ pending = <<>>
    /\ origin = <<>>
    /\ now = 1
    /\ response = [kind |-> "none", id |-> 0]
    /\ campaigns = <<>>
    /\ background = <<>>
    /\ GraphIdle
    /\ ManagerIdle

NextTriggers ==
    \/ \E w \in {"w1", "w2"}, trigger \in TriggerPool : RegisterTrigger(w, trigger)
    \/ \E type \in EventTypes, h \in HandlerPool : RegisterEventHandler(type, h)
    \/ \E type \in EventTypes, event_data \in EventPool : EvaluateEvent(type, event_data)
    \/ HandlerReturns
    \/ HandlerRaises

SpecTriggers == InitTriggers /\ [][NextTriggers]_vars

-----------------------------------------------------------------------------
(* Properties of the step interpreter *)

Execs == 1..Len(executions)

Terminal == {"completed", "failed"}

\* the handler of a step of execution e is being executed
Executing(e) == runs[e].pc \in {"dispatch", "await_http", "await_sleep"}

Returned(e) == runs[e].pc = "returned"

\* an exception was raised by a step of execution e
HasRaised(e) == ~runs[e].exc.ok

LogsOf(e) == SelectSeq(logs, LAMBDA row : row.execution_id = e)

\* the rows the loop wrote for steps that returned
SuccessRows(e) == {j \in 1..Len(logs) : logs[j].execution_id = e /\ logs[j].details.ok}

\* the value the log records as returned by step k of execution e
Returned_value(e, k) ==
    logs[CHOOSE j \in SuccessRows(e) : logs[j].step = k].details.val

StepsOf(e) == runs[e].workflow.steps

\* the indexes (from 0) of the steps of e that declare output_key key
Declaring(e, key) == {k \in 0..(Len(StepsOf(e)) - 1) : StepsOf(e)[k + 1].output_key = key}

DeclaredKeys(e) ==
    {StepsOf(e)[k].output_key : k \in 1..Len(StepsOf(e))} \ {Absent}

Max(S) == CHOOSE x \in S : \A y \in S : y <= x

\* C1 (as claimed): the persisted status is running while a step of the
\* execution is being executed, and an execution never moves from pending
\* directly to completed or failed.
C1_StatusPath ==
    [][\A e \in Execs :
         /\ Executing(e) => executions[e].status = "running"
         /\ executions[e].status = "pending"
              => executions'[e].status \in {"pending", "running"}]_vars

\* C2: a returned execution is completed or failed with end_time set; in
\* every state end_time is set only for a completed or failed execution; a
\* completed or failed status never changes again.
C2_TerminalOnce ==
    /\ [](\A e \in Execs :
            /\ Returned(e) => executions[e].status \in Terminal
                              /\ executions[e].end_time # NoTime
            /\ executions[e].end_time # NoTime => executions[e].status \in Terminal)
    /\ [][\A e \in Execs :
            executions[e].status \in Terminal
              => executions'[e].status = executions[e].status]_vars

C2_Witness ==
    \E e \in Execs : Returned(e) /\ executions[e].status = "failed"
                     /\ executions[e].current_step = 1

\* C3: when a step raises, execute_workflow still returns the execution, with
\* status failed and error_data = {error: the message of the exception,
\* step: the index of the step that raised}; the exception goes no further
\* than the handler of execute_workflow.
C3_FailureIsReturned ==
    \A e \in Execs :
        /\ HasRaised(e) => runs[e].pc \in {"raise", "final", "returned"}
        /\ (Returned(e) /\ HasRaised(e))
             => /\ response = [kind |-> "execution", id |-> e]
                /\ executions[e].status = "failed"
                /\ executions[e].error_data =
                     [set |-> TRUE, error |-> runs[e].exc.err, step |-> runs[e].failed_step]
                /\ runs[e].failed_step = runs[e].i

C3_Witness ==
    \E e \in Execs :
        /\ Returned(e) /\ HasRaised(e)
        /\ runs[e].failed_step = 1
        /\ StepsOf(e)[2].type = Absent
        /\ executions[e].error_data.error = "'type'"

\* C4: after the step at index k raised, the execution ends failed with
\* error_data.step = k, the loop takes no further step, and no log row of the
\* execution has a step index greater than k.
C4_FirstFailureStops ==
    /\ [](\A e \in Execs :
            HasRaised(e)
              => /\ runs[e].i = runs[e].failed_step
                 /\ ~Executing(e) /\ runs[e].pc # "loop"
                 /\ \A j \in 1..Len(logs) :
                      logs[j].execution_id = e => logs[j].step <= runs[e].failed_step
                 /\ Returned(e) => /\ executions[e].status = "failed"
                                   /\ executions[e].error_data.step = runs[e].failed_step)
    /\ [][\A e \in Execs :
            HasRaised(e) => /\ HasRaised(e)'
                            /\ executions'[e].current_step = executions[e].current_step]_vars

C4_Witness ==
    \E e \in Execs :
        /\ Returned(e) /\ HasRaised(e)
        /\ runs[e].failed_step = 0
        /\ Len(StepsOf(e)) = 3
        /\ StepsOf(e)[1].type = "delay" /\ StepsOf(e)[1].seconds = IntVal(-1)

\* C5 (as claimed): a returned execution has one log row per attempted step:
\* n rows when it completed over n steps, k + 1 rows when step k failed.
C5_OneRowPerAttempt ==
    \A e \in Execs :
        Returned(e)
          => Len(LogsOf(e)) = IF HasRaised(e) THEN runs[e].failed_step + 1
                              ELSE Len(StepsOf(e))

\* C6: when no step raised, the returned execution is completed with no
\* error_data, and output_data has exactly the output_key names of the steps,
\* each with the value returned by the last step that declares it.
C6_OutputIsVars ==
    \A e \in Execs :
        (Returned(e) /\ ~HasRaised(e))
          => /\ executions[e].status = "completed"
             /\ executions[e].error_data = NoError
             /\ executions[e].output_data = runs[e].context.vars
             /\ DictKeys(executions[e].output_data) = DeclaredKeys(e)
             /\ \A key \in DeclaredKeys(e) :
                  DictGet(executions[e].output_data, key)
                    = Returned_value(e, Max(Declaring(e, key)))

C6_Witness ==
    \E e \in Execs :
        /\ Returned(e) /\ executions[e].status = "completed"
        /\ Len(StepsOf(e)) = 3
        /\ Cardinality(Declaring(e, "resp")) >= 2
        /\ Declaring(e, "passed") # {}
        /\ Returned_value(e, Max(Declaring(e, "resp")))
             # Returned_value(e, CHOOSE k \in Declaring(e, "resp") : \A y \in Declaring(e, "resp") : k <= y)

\* the steps of e that have returned and declare an output_key
ReturnedDeclaring(e) ==
    {k \in 0..(Len(StepsOf(e)) - 1) :
        /\ StepsOf(e)[k + 1].output_key # Absent
        /\ \E j \in SuccessRows(e) : logs[j].step = k}

\* right after step k returned: its success row is committed, the loop has
\* not yet taken the next step
JustReturned(e, k) == runs[e].pc = "loop" /\ runs[e].i = k + 1

\* C7 (as claimed): right after a step that declares output_key returned,
\* vars[output_key] is its return value, and when the run completes that
\* same value is in output_data under output_key.
C7_ValueStaysPresent ==
    \A e \in Execs : \A k \in ReturnedDeclaring(e) :
        LET key == StepsOf(e)[k + 1].output_key
        IN  /\ JustReturned(e, k)
              => /\ HasKey(runs[e].context.vars, key)
                 /\ DictGet(runs[e].context.vars, key) = Returned_value(e, k)
            /\ (Returned(e) /\ executions[e].status = "completed")
              => /\ HasKey(executions[e].output_data, key)
                 /\ DictGet(executions[e].output_data, key) = Returned_value(e, k)

\* C7 (amended): right after a step that declares output_key returned,
\* vars[output_key] is its return value; when the run completes, output_data
\* has under output_key the return value of the last step that declares that
\* key, which is this step's value when no later step declares the same key.
C7_LastValuePresent ==
    \A e \in Execs : \A k \in ReturnedDeclaring(e) :
        LET key == StepsOf(e)[k + 1].output_key
        IN  /\ JustReturned(e, k)
              => /\ HasKey(runs[e].context.vars, key)
                 /\ DictGet(runs[e].context.vars, key) = Returned_value(e, k)
            /\ (Returned(e) /\ executions[e].status = "completed")
              => /\ HasKey(executions[e].output_data, key)
                 /\ DictGet(executions[e].output_data, key)
                      = Returned_value(e, Max(Declaring(e, key)))

C7_Witness ==
    \E e \in Execs : \E k \in ReturnedDeclaring(e) :
        /\ Returned(e) /\ executions[e].status = "completed"
        /\ k < Max(Declaring(e, StepsOf(e)[k + 1].output_key))
        /\ DictGet(executions[e].output_data, StepsOf(e)[k + 1].output_key)
             # Returned_value(e, k)

\* C8: an execution of a workflow without steps returns completed with
\* output_data = {}, no log row and current_step null.
C8_EmptyWorkflow ==
    \A e \in Execs :
        StepsOf(e) = <<>>
          => /\ runs[e].pc \in {"loop", "returned"}
             /\ LogsOf(e) = <<>>
             /\ executions[e].current_step = NoStep
             /\ Returned(e) => /\ executions[e].status = "completed"
                               /\ executions[e].output_data = EmptyDict
                               /\ executions[e].error_data = NoError

C8_Witness ==
    \E e \in Execs :
        /\ StepsOf(e) = <<>> /\ Returned(e)
        /\ executions[e].input_data # EmptyDict

\* the row was written by the loop for an attempt of a step (the row of the
\* handler of execute_workflow says "Error executing step: ...")
IsAttemptRow(row) ==
    row.message \in {"Successfully executed " \o row.step_type \o " step",
                     "Failed to execute " \o row.step_type \o " step"}

AttemptRows(e) == {j \in 1..Len(logs) : logs[j].execution_id = e /\ IsAttemptRow(logs[j])}

\* the handler of a step of execution e is entered by this step
HandlerEntered(e) == runs[e].pc = "loop" /\ runs'[e].pc = "dispatch"

\* C13: nothing is retried. Every step index is attempted at most once per
\* execution (no two attempt rows of one execution have the same index, and
\* a handler is entered only for the index after the last one, never after
\* a step raised), and retries stays 0.
C13_NoRetry ==
    /\ [](\A e \in Execs :
            /\ executions[e].retries = 0
            /\ \A j, k \in AttemptRows(e) : logs[j].step = logs[k].step => j = k)
    /\ [][\A e \in Execs :
            HandlerEntered(e) =>
                /\ ~HasRaised(e)
                /\ executions'[e].current_step = executions[e].current_step + 1]_vars

\* a run that failed at its second step or later and has been returned
C13_Witness ==
    \E e \in Execs :
        /\ Returned(e) /\ executions[e].status = "failed"
        /\ runs[e].failed_step >= 1
        /\ \E j \in AttemptRows(e) : logs[j].step = runs[e].failed_step /\ ~logs[j].details.ok

\* the members of the enum ExecutionStatus
ExecutionStatuses == {"pending", "running", "completed", "failed"}

\* C14: the persisted status of every execution is at all times one of
\* pending, running, completed and failed.
C14_StatusInEnum ==
    \A e \in Execs : executions[e].status \in ExecutionStatuses

\* a run has been closed by the success path and returned
C14_Witness ==
    \E e \in Execs :
        /\ Returned(e) /\ executions[e].status = "completed"
        /\ StepsOf(e) # <<>>

\* step k of execution e returned: its success row is persisted, and its
\* result is in vars under its output_key if it has one
Done(e, k) ==
    /\ \E j \in SuccessRows(e) : logs[j].step = k /\ IsAttemptRow(logs[j])
    /\ StepsOf(e)[k + 1].output_key # Absent
         => HasKey(runs[e].context.vars, StepsOf(e)[k + 1].output_key)

\* C18: steps run in list order. While the handler of step i is executing,
\* and whenever the loop stands at index i, every step before i has
\* returned, its result is stored under its output_key and its success row
\* is persisted; the log rows of a run start at index 0, never go back and
\* never skip an index.
C18_ListOrder ==
    \A e \in Execs :
        /\ \A k \in 0..(runs[e].i - 1) : Done(e, k)
        /\ LET rows == LogsOf(e)
           IN  /\ rows # <<>> => rows[1].step = 0
               /\ \A j \in 1..(Len(rows) - 1) :
                    rows[j + 1].step \in {rows[j].step, rows[j].step + 1}

\* the handler of the third step is executing after two steps that stored
\* their results
C18_Witness ==
    \E e \in Execs :
        /\ Executing(e) /\ runs[e].i = 2
        /\ StepsOf(e)[1].output_key # Absent
        /\ StepsOf(e)[2].output_key # Absent
        /\ StepsOf(e)[1].output_key # StepsOf(e)[2].output_key

\* C19: while the handler of step i is executing the persisted current_step
\* is i; over a run the persisted current_step goes null, 0, 1, 2, ... one
\* at a time and never back; once the execution is completed or failed it
\* is the index of the last step attempted (null if the workflow has no
\* step).
C19_CurrentStepObservable ==
    /\ [](\A e \in Execs :
            /\ Executing(e) => executions[e].current_step = runs[e].i
            /\ executions[e].status \in Terminal =>
                 executions[e].current_step =
                     (IF StepsOf(e) = <<>> THEN NoStep
                      ELSE IF HasRaised(e) THEN runs[e].failed_step
                      ELSE Len(StepsOf(e)) - 1))
    /\ [][\A e \in Execs :
            /\ executions'[e].current_step \in
                 {executions[e].current_step, executions[e].current_step + 1}
            /\ executions[e].current_step = NoStep =>
                 executions'[e].current_step \in {NoStep, 0}]_vars

\* the handler of the second step is waiting for its HTTP answer, and the
\* row shows index 1
C19_Witness ==
    \E e \in Execs :
        /\ runs[e].pc = "await_http"
        /\ runs[e].i = 1
        /\ executions[e].current_step = 1
        /\ executions[e].status = "pending"

SameValue(a, b) == IF IsNumber(a) /\ IsNumber(b) THEN a.n = b.n ELSE a = b

\* the comparison the operator names, on two values it is defined for
Reference(operator, a, b) ==
    CASE operator = "eq" -> SameValue(a, b)
      [] operator = "neq" -> ~SameValue(a, b)
      [] operator = "gt" -> a.n > b.n
      [] operator = "gte" -> a.n >= b.n
      [] operator = "lt" -> a.n < b.n
      [] operator = "lte" -> a.n <= b.n

\* the first two segments of the path of a variable operand are not in the
\* context, or the operand is of no known type
Unresolvable(operand, context) ==
    \/ operand.type \notin {"variable", "literal"}
    \/ /\ operand.type = "variable"
       /\ \/ operand.path[1] \notin {"input", "output", "vars"}
          \/ operand.path[1] = "input" /\ ~HasKey(context.input, operand.path[2])
          \/ operand.path[1] = "vars" /\ ~HasKey(context.vars, operand.path[2])
          \/ operand.path[1] = "output"

\* the condition step of execution e is the comparison of the claim's example
ScoreAbove80(e) ==
    /\ StepsOf(e)[2].condition =
           Comparison("gt", Variable(<<"input", "score">>), Literal(IntVal(80)))
    /\ HasKey(executions[e].input_data, "score")
    /\ DictGet(executions[e].input_data, "score") = IntVal(85)

\* C21: the row logged for a condition step records the reference comparison
\* of its two resolved operands for eq, neq, gt, gte, lt and lte (input.score
\* with score 85 gt literal 80 gives True), and records a failure when the
\* operator, the condition type or an operand type is unknown or a path
\* segment is missing from the context.
C21_ReferenceComparison ==
    \A e \in Execs : \A j \in AttemptRows(e) :
        logs[j].step = 1 =>
          LET c == StepsOf(e)[2].condition
              left == GetValue(c.left, runs[e].context)
              right == GetValue(c.right, runs[e].context)
              ordered == c.operator \in {"gt", "gte", "lt", "lte"}
              failing == \/ c.type # "comparison"
                         \/ c.operator \notin {"eq", "neq", "gt", "gte", "lt", "lte"}
                         \/ ~left.ok \/ ~right.ok
                         \/ ordered /\ ~(IsNumber(left.val) /\ IsNumber(right.val))
          IN  /\ logs[j].details.ok <=> ~failing
              /\ logs[j].details.ok =>
                   logs[j].details.val = BoolVal(Reference(c.operator, left.val, right.val))
              /\ (Unresolvable(c.left, runs[e].context) \/ Unresolvable(c.right, runs[e].context))
                   => ~logs[j].details.ok
              /\ ScoreAbove80(e) => logs[j].details = Return(BoolVal(TRUE))

\* the example of the claim has been evaluated, after a step that stored an
\* answer in vars
C21_Witness ==
    \E e \in Execs : \E j \in AttemptRows(e) :
        /\ logs[j].step = 1
        /\ ScoreAbove80(e)
        /\ Returned(e)
        /\ DictGet(executions[e].output_data, "passed") = BoolVal(TRUE)
        /\ HasKey(executions[e].output_data, "resp")

\* the step types the loop has a handler for
Handled == {"http_request", "condition", "email", "delay", "function"}

\* a step of a type without a handler (subprocess, or a string that is not
\* in StepType), or a function step that names another function than transform
Unsupported(step) ==
    /\ step.type # Absent
    /\ \/ step.type \notin Handled
       \/ step.type = "function" /\ step.function \notin {Absent, "transform"}

\* C23 (as claimed): an unsupported step at index k that the run reaches is
\* an ordinary step failure: the returned execution is failed with
\* error_data.step = k, a failure row of the step (written by the loop, with
\* step index k) is persisted, and no later step has run.
C23_UnsupportedIsStepFailure ==
    \A e \in Execs : \A k \in 0..(Len(StepsOf(e)) - 1) :
        (Returned(e) /\ Unsupported(StepsOf(e)[k + 1]) /\ executions[e].current_step >= k) =>
            /\ executions[e].status = "failed"
            /\ executions[e].error_data.step = k
            /\ executions[e].current_step = k
            /\ \E j \in AttemptRows(e) : logs[j].step = k /\ ~logs[j].details.ok
            /\ \A j \in 1..Len(logs) : logs[j].execution_id = e => logs[j].step <= k

\* C24: once an execution is completed or failed, error_data is set exactly
\* if the status is failed; a failed execution has the empty mapping as
\* output_data, whatever earlier steps stored in vars, and a completed one
\* has no error_data.
C24_ErrorIffFailed ==
    \A e \in Execs :
        executions[e].status \in Terminal =>
            /\ executions[e].error_data.set <=> executions[e].status = "failed"
            /\ executions[e].status = "failed" => executions[e].output_data = EmptyDict
            /\ executions[e].status = "completed" => executions[e].error_data = NoError

\* a failed execution whose earlier step had stored a result in vars
C24_Witness ==
    \E e \in Execs :
        /\ Returned(e) /\ executions[e].status = "failed"
        /\ runs[e].context.vars # EmptyDict
        /\ executions[e].output_data = EmptyDict
        /\ executions[e].error_data.set

-----------------------------------------------------------------------------
(* Properties of the workflow store *)

Rows == 1..Len(workflows)

\* rows a and b are versions of one workflow of one tenant
SameIdentity(a, b) ==
    workflows[a].tenant_id = workflows[b].tenant_id /\ origin[a] = origin[b]

\* C9 (as claimed): at most one version per (tenant, workflow identity) has
\* is_latest true.
C9_SingleLatest ==
    \A a, b \in Rows :
        (SameIdentity(a, b) /\ workflows[a].is_latest /\ workflows[b].is_latest) => a = b

\* the step is the commit of an update_workflow request that addressed row w
CommitAddressing(w) ==
    /\ Len(workflows') = Len(workflows) + 1
    /\ \E p \in 1..Len(pending) :
         /\ pending[p].db_workflow.id = w
         /\ pending' = SubSeq(pending, 1, p - 1) \o SubSeq(pending, p + 1, Len(pending))

\* C10 (as claimed): no step of the store changes a field of an existing row,
\* other than is_latest of the row an update addressed.
C10_OnlyIsLatestChanges ==
    [][\A w \in Rows :
         \/ workflows'[w] = workflows[w]
         \/ /\ CommitAddressing(w)
            /\ workflows'[w] = [workflows[w] EXCEPT !.is_latest = FALSE]]_vars

\* C10 (amended): update_workflow inserts one row and changes no field of an
\* existing row other than is_latest, and with it the onupdate timestamp
\* updated_at, of the addressed row; steps, name, status and version of
\* every existing row stay as they are.
C10_NoVersionMutatedInPlace ==
    [][/\ Len(workflows') >= Len(workflows)
       /\ \A w \in Rows :
            \/ workflows'[w] = workflows[w]
            \/ /\ CommitAddressing(w)
               /\ workflows'[w] = [workflows[w] EXCEPT !.is_latest = FALSE,
                                                       !.updated_at = workflows'[w].updated_at]]_vars

C10_Witness ==
    \E w \in Rows :
        /\ ~workflows[w].is_latest
        /\ workflows[w].updated_at # workflows[w].created_at
        /\ workflows[w].status = "active"
        /\ \E v \in Rows : v > w /\ workflows[v].version = workflows[w].version + 1
                           /\ workflows[v].steps # workflows[w].steps

\* row b was created by update_workflow
CreatedByUpdate(b) == origin[b] # b

\* C11 (as claimed): a row created by update_workflow has a version greater
\* than that of every row of its identity that existed before it (rows are
\* numbered in the order of their insertion), so no two versions of one
\* workflow share a version number.
C11_VersionsIncrease ==
    \A a, b \in Rows :
        (a < b /\ SameIdentity(a, b) /\ CreatedByUpdate(b))
          => workflows[a].version < workflows[b].version

-----------------------------------------------------------------------------
(* Properties of the execute endpoint *)

\* the step inserts an execution row
ExecutionCreated == Len(executions') = Len(executions) + 1

\* C12: an execution row is created only for a workflow row that has the id
\* of the request, the tenant of the request and status active, whether or
\* not that row is the latest version, and its workflow_id is that row; a
\* request answered 404 "Active workflow not found" creates no execution row
\* and no log row.
C12_OnlyActiveOfTenant ==
    [][ /\ ExecutionCreated =>
             LET new == executions'[Len(executions')]
             IN  /\ new.workflow_id \in Rows
                 /\ workflows[new.workflow_id].status = "active"
                 /\ workflows[new.workflow_id].tenant_id = new.tenant_id
                 /\ runs'[Len(runs')].workflow = workflows[new.workflow_id]
        /\ (response'.kind = "Active workflow not found" /\ response' # response)
             => (executions' = executions /\ logs' = logs) ]_vars

\* an execution of an active row that is not the latest version
C12_Witness ==
    \E e \in Execs :
        /\ workflows[executions[e].workflow_id].status = "active"
        /\ ~workflows[executions[e].workflow_id].is_latest
        /\ \E w \in Rows : workflows[w].status # "active"

\* what step gives in context when it runs by itself, answer being what the
\* endpoint of an HTTP step answers
StepOutcome(step, context, answer) ==
    IF ~ToStepType(step).ok THEN ToStepType(step)
    ELSE LET h == HandlerStart(step, context)
         IN  CASE h.kind = "done" -> h.res
               [] h.kind = "await_http" -> answer
               [] h.kind = "await_sleep" ->
                    IF step.type = "email" THEN h.res ELSE Return(NoneVal)

\* the end of a run of steps from index i on that nothing else interleaves
\* with: the fields execute_workflow leaves in the execution row
RECURSIVE Alone(_, _, _, _)
Alone(steps, i, context, answers) ==
    IF i = Len(steps)
    THEN [status |-> "completed", output_data |-> context.vars, error_data |-> NoError,
          current_step |-> IF i = 0 THEN NoStep ELSE i - 1]
    ELSE LET out == StepOutcome(steps[i + 1], context, answers[i + 1])
         IN  IF out.ok
             THEN Alone(steps, i + 1,
                        [context EXCEPT !.vars = StoreResult(@, steps[i + 1], out.val)], answers)
             ELSE [status |-> "failed", output_data |-> EmptyDict,
                   error_data |-> ErrorData(out.err, i), current_step |-> i]

\* what the endpoints answered to execution e, step by step (read from the
\* attempt rows; a step that was not reached has no answer)
AnswersTo(e) ==
    [k \in 1..Len(StepsOf(e)) |->
        IF \E j \in AttemptRows(e) : logs[j].step = k - 1
        THEN logs[CHOOSE j \in AttemptRows(e) : logs[j].step = k - 1].details
        ELSE Return(NoneVal)]

\* the fields of the execution row the claim compares
Outcome(e) ==
    [status |-> executions[e].status, output_data |-> executions[e].output_data,
     error_data |-> executions[e].error_data, current_step |-> executions[e].current_step]

\* execution e takes this step
Acts(e) == runs'[e] # runs[e]

\* C15: executions that interleave are independent. A returned execution has
\* the status, output_data, error_data and current_step that its steps give
\* on its own input when nothing interleaves; a step that writes the row of
\* an execution is a step of that execution and leaves the row and the
\* context of every other execution alone; a log row written by a step
\* carries the id of the execution that took the step.
C15_Independent ==
    /\ [](\A e \in Execs :
            Returned(e) =>
                Outcome(e) = Alone(StepsOf(e), 0,
                                   [input |-> executions[e].input_data, output |-> EmptyDict,
                                    vars |-> EmptyDict],
                                   AnswersTo(e)))
    /\ [][\A e \in Execs :
            /\ executions'[e] # executions[e] => Acts(e)
            /\ Acts(e) =>
                 /\ \A f \in Execs \ {e} : executions'[f] = executions[f] /\ runs'[f] = runs[f]
                 /\ Len(logs') > Len(logs) => logs'[Len(logs')].execution_id = e
                 /\ SubSeq(logs', 1, Len(logs)) = logs]_vars

\* two executions of one workflow row, the second started before the first
\* ended, on different inputs, one completed and one failed
C15_Witness ==
    \E e, f \in Execs :
        /\ e # f
        /\ executions[e].workflow_id = executions[f].workflow_id
        /\ executions[e].input_data # executions[f].input_data
        /\ Returned(e) /\ Returned(f)
        /\ executions[f].start_time < executions[e].end_time
        /\ executions[e].start_time < executions[f].end_time
        /\ executions[e].status = "completed" /\ executions[f].status = "failed"

-----------------------------------------------------------------------------
(* Properties of failing commits *)

\* a commit of execution e has failed
CommitFailed(e) == runs[e].exc = Raise(CommitError)

\* the error reached the caller of execute_workflow
Propagated(e) == runs[e].pc = "propagated"

\* C16 (as claimed): a commit that fails at any commit point propagates to
\* the caller and is not converted into a failed execution record: no
\* execution whose commit failed is returned, and none gets a row that
\* records the commit error as its failure.
C16_CommitFailurePropagates ==
    \A e \in Execs :
        CommitFailed(e) =>
            /\ ~Returned(e)
            /\ ~(executions[e].status = "failed" /\ executions[e].error_data.error = CommitError)

\* C16 (amended): a failed commit of the initial insert or of the final
\* commit reaches the caller: nothing of the failed commit is written, so a
\* row is completed only if no commit of its run failed. A failed commit
\* inside _execute_steps is caught by the handler of execute_workflow: the
\* error reaches the caller only if the handler or the final commit fails
\* as well, and otherwise the execution is returned with status failed, the
\* commit error in error_data and a log row of the handler.
C16_CommitFailureOutcome ==
    /\ (response = [kind |-> "raised", id |-> 0] /\ runs = <<>>) => executions = <<>>
    /\ \A e \in Execs :
        /\ Propagated(e) =>
             /\ response = [kind |-> "raised", id |-> e]
             /\ executions[e].status # "completed"
             /\ executions[e].status = "failed" =>
                  \E j \in 1..Len(logs) : logs[j].execution_id = e /\ ~IsAttemptRow(logs[j])
        /\ executions[e].status = "completed" => runs[e].exc.ok
        /\ (CommitFailed(e) /\ Returned(e)) =>
             /\ executions[e].status = "failed"
             /\ executions[e].error_data.error = CommitError
             /\ \E j \in 1..Len(logs) :
                  /\ logs[j].execution_id = e /\ ~IsAttemptRow(logs[j])
                  /\ logs[j].details = Raise(CommitError)

\* the commit of current_step of the second step failed, the handler's
\* commit succeeded, and the execution was returned as failed
C16_Witness ==
    \E e \in Execs :
        /\ CommitFailed(e) /\ Returned(e)
        /\ executions[e].current_step = 0
        /\ runs[e].i = 1
        /\ AttemptRows(e) # {}

-----------------------------------------------------------------------------
(* Properties of condition steps *)

\* a condition step that compares two literals
LiteralOnly(step) ==
    /\ step.type = "condition"
    /\ step.condition.type = "comparison"
    /\ step.condition.left.type = "literal"
    /\ step.condition.right.type = "literal"

\* the context of a run with no input and no earlier result
EmptyContext == [input |-> EmptyDict, output |-> EmptyDict, vars |-> EmptyDict]

\* C17: a condition step on two literals gives the same in every context:
\* whatever the input and the results of earlier steps, the result (or the
\* error) the run logs for it is the one the step gives in the empty
\* context; a result is a boolean, and gt on the literals 5 and 3 gives True.
C17_LiteralsIgnoreContext ==
    \A e \in Execs : \A j \in AttemptRows(e) :
        LET step == StepsOf(e)[logs[j].step + 1]
        IN  LiteralOnly(step) =>
              /\ logs[j].details = ExecuteCondition(step, EmptyContext)
              /\ logs[j].details.ok => logs[j].details.val.t = "bool"
              /\ step.condition = Comparison("gt", Literal(IntVal(5)), Literal(IntVal(3)))
                   => logs[j].details = Return(BoolVal(TRUE))

\* gt on 5 and 3 evaluated in a context with input and an earlier result
C17_Witness ==
    \E e \in Execs : \E j \in AttemptRows(e) :
        /\ LiteralOnly(StepsOf(e)[logs[j].step + 1])
        /\ StepsOf(e)[logs[j].step + 1].condition.operator = "gt"
        /\ logs[j].details = Return(BoolVal(TRUE))
        /\ runs[e].context.input # EmptyDict
        /\ HasKey(runs[e].context.vars, "resp")

-----------------------------------------------------------------------------
(* Properties of interpolation *)

\* what one chunk of a template stands for when every placeholder of the
\* template is replaced once, all at the same time
SubstituteChunk(chunk, context) ==
    IF \E k \in DictKeys(context.input) : chunk = Placeholder("input", k)
    THEN PyStr(DictGet(context.input,
                       CHOOSE k \in DictKeys(context.input) : chunk = Placeholder("input", k)))
    ELSE IF \E k \in DictKeys(context.vars) : chunk = Placeholder("vars", k)
    THEN PyStr(DictGet(context.vars,
                       CHOOSE k \in DictKeys(context.vars) : chunk = Placeholder("vars", k)))
    ELSE <<chunk>>

RECURSIVE Substitute(_, _)
Substitute(template, context) ==
    IF template = <<>> THEN <<>>
    ELSE SubstituteChunk(Head(template), context) \o Substitute(Tail(template), context)

\* the template the second step of execution e interpolates
TemplateOf(e) ==
    IF StepsOf(e)[2].type = "http_request" THEN StepsOf(e)[2].url
    ELSE JsonDumps(StepsOf(e)[2].template)

\* execution e has interpolated the template of its second step: the request
\* is on its way, or the transform has returned
Interpolated(e) ==
    \/ runs[e].i = 1 /\ runs[e].pc = "await_http"
    \/ StepsOf(e)[2].type = "function" /\ \E j \in SuccessRows(e) : logs[j].step = 1

\* the text execution e got from the template of its second step
ResultOf(e) ==
    IF StepsOf(e)[2].type = "http_request" THEN runs[e].request_url
    ELSE Returned_value(e, 1).s

\* the string forms of the values of the context
ValueTexts(context) ==
    {PyStr(context.input[n][2]) : n \in 1..Len(context.input)}
    \cup {PyStr(context.vars[n][2]) : n \in 1..Len(context.vars)}

\* the placeholders of the keys of the context
Present(context) ==
    {Placeholder("input", k) : k \in DictKeys(context.input)}
    \cup {Placeholder("vars", k) : k \in DictKeys(context.vars)}

\* no value of the context has a string form that contains a placeholder of
\* a key of the context
PlainValues(context) ==
    \A text \in ValueTexts(context) : \A n \in 1..Len(text) : text[n] \notin Present(context)

------------------------------------------------------------------------------
(* Properties of the campaign service *)

\* the request a step has accepted, and the request a step has answered
Accepted(op) ==
    /\ Len(pending') = Len(pending) + 1
    /\ pending'[Len(pending')].op = op

Answered(p, op, pc) ==
    /\ p \in 1..Len(pending)
    /\ pending[p].op = op /\ pending[p].pc = pc
    /\ pending' = Without(p)
    /\ response'.kind # "raised"

Refused(kind) == response' # response /\ response'.kind = kind

Tasks(c) == {b \in 1..Len(background) : background[b].campaign_id = c}

\* C26: start_campaign of a campaign that is neither draft nor paused, and
\* pause_campaign of a campaign that is not running, are refused with an
\* error, change no column of the campaign and add no background task; a
\* start_campaign that is accepted sets the status running at its commit and
\* adds exactly one task, for that campaign, when it returns; no other call
\* adds a task.
C26_StatusGuards ==
    [][ /\ Accepted("start_campaign")
            => /\ pending'[Len(pending')].campaign \in {campaigns[c] : c \in 1..Len(campaigns)}
               /\ pending'[Len(pending')].campaign.status \in {"draft", "paused"}
        /\ Accepted("pause_campaign")
            => /\ pending'[Len(pending')].campaign \in {campaigns[c] : c \in 1..Len(campaigns)}
               /\ pending'[Len(pending')].campaign.status = "running"
        /\ Refused("Cannot start campaign")
            => /\ campaigns[response'.id].status \notin {"draft", "paused"}
               /\ response'.detail = campaigns[response'.id].status
               /\ UNCHANGED <<campaigns, background, pending>>
        /\ Refused("Cannot pause campaign")
            => /\ campaigns[response'.id].status # "running"
               /\ response'.detail = campaigns[response'.id].status
               /\ UNCHANGED <<campaigns, background, pending>>
        /\ \A p \in 1..Len(pending) :
              ( /\ pending[p].op = "start_campaign" /\ pending[p].pc = "commit"
                /\ Len(pending') = Len(pending) /\ pending'[p].pc = "refresh" )
              => /\ campaigns'[pending[p].campaign.id].status = "running"
                 /\ campaigns'[pending[p].campaign.id].started_at = now
                 /\ background' = background
        /\ \A p \in 1..Len(pending) :
              Answered(p, "start_campaign", "refresh")
              => background' = Append(background,
                     [campaign_id |-> pending[p].campaign.id, pc |-> "queued"])
        /\ Len(background') # Len(background)
              => \E p \in 1..Len(pending) : Answered(p, "start_campaign", "refresh")
      ]_vars

\* a second start_campaign of a running campaign was refused after the first
\* one had queued its task
C26_Witness ==
    /\ response.kind = "Cannot start campaign"
    /\ campaigns[1].status = "running"
    /\ Len(background) = 1

Queued(c) == \E b \in Tasks(c) : background[b].pc = "queued"

Completed(c) == campaigns[c].status = "completed" /\ campaigns[c].completed_at # NoTime

\* the campaign was paused, stopped, deleted or given another status
Interrupted(c) == campaigns[c].deleted \/ campaigns[c].status # "running"

\* C27: once start_campaign has queued the background execution of a running
\* campaign, the campaign eventually is completed with completed_at set,
\* unless it is paused, stopped or deleted before
C27_EventuallyCompleted ==
    \A c \in {1} :
        (Queued(c) /\ campaigns[c].status = "running")
            ~> (Completed(c) \/ Interrupted(c))

------------------------------------------------------------------------------
(* Properties of the graph engine *)

GraphTasks == 1..Len(background)

Started(b) == background[b].execution # NoExecution

\* C28: execute_workflow of the graph engine never raises; the execution it
\* returns is COMPLETED or FAILED with completed_at set, has an error exactly
\* when it is FAILED and a result only when it is COMPLETED; and an execution
\* is RUNNING exactly while its task is suspended in arun, that is between the
\* successful build of the graph and the end of its run.
C28_ReturnsFinishedExecution ==
    \A b \in GraphTasks :
        LET execution == background[b].execution IN
        /\ background[b].pc \in {"queued", "arun", "returned"}
        /\ background[b].pc = "queued" <=> ~Started(b)
        /\ Started(b) => (execution.status = "RUNNING" <=> background[b].pc = "arun")
        /\ background[b].pc = "returned"
            => /\ execution.status \in {"COMPLETED", "FAILED"}
               /\ execution.completed_at # NoTime
               /\ execution.error.set <=> execution.status = "FAILED"
               /\ execution.result.set => execution.status = "COMPLETED"

\* one execution has failed in the build of its graph and another has
\* returned the result of its run
C28_Witness ==
    \E b, d \in GraphTasks :
        /\ background[b].pc = "returned" /\ background[d].pc = "returned"
        /\ background[b].execution.status = "FAILED"
        /\ background[b].execution.error = SetTo("KeyError")
        /\ background[d].execution.status = "COMPLETED"
        /\ background[d].execution.result.set

\* C29: the execution_id the execute endpoint returns, and publishes in the
\* event workflow.triggered, is the id of the execution its task runs
C29_AnnouncedIdRuns ==
    \A b \in GraphTasks :
        Started(b) => background[b].execution.id = background[b].announced

------------------------------------------------------------------------------
(* Properties of the trigger manager *)

\* the condition holds on the event data; a condition on an absent field
\* does not hold
Holds(condition, event_data) ==
    LET field_value == EventGet(event_data, condition.field) IN
    /\ HasKey(event_data, condition.field)
    /\ CASE condition.operator = "equals" -> SameValue(field_value, condition.value)
         [] condition.operator = "not_equals" -> ~SameValue(field_value, condition.value)
         [] condition.operator = "greater_than" -> field_value.n > condition.value.n
         [] condition.operator = "less_than" -> field_value.n < condition.value.n
         [] OTHER -> \E i \in 1..Len(field_value.s) :
                        \E j \in i..Len(field_value.s) :
                            SubSeq(field_value.s, i, j) = condition.value.s

\* the workflow has a registered trigger of the type whose conditions all hold
Matching(workflow_id, trigger_type, event_data) ==
    /\ HasKey(triggers, workflow_id)
    /\ \E k \in 1..Len(DictGet(triggers, workflow_id)) :
          LET trigger == DictGet(triggers, workflow_id)[k] IN
          /\ trigger.type = trigger_type
          /\ \A c \in 1..Len(trigger.conditions) : Holds(trigger.conditions[c], event_data)

Range(seq) == {seq[k] : k \in 1..Len(seq)}

Evaluated == response.kind = "evaluate_event"

\* C30: evaluate_event dispatches exactly the workflows that have a trigger
\* of the event's type all of whose conditions hold on the event data; it
\* calls every handler of the type for each of them, and calls no handler
\* more than once for the same workflow
C30_DispatchOncePerMatch ==
    /\ [](Evaluated =>
            /\ \A i, j \in 1..Len(dispatched) :
                  ( /\ dispatched[i].entry = dispatched[j].entry
                    /\ dispatched[i].workflow_id = dispatched[j].workflow_id ) => i = j
            /\ \A i \in 1..Len(dispatched) :
                  Matching(dispatched[i].workflow_id, evaluation.trigger_type,
                           evaluation.event_data))
    /\ [][ /\ (~Evaluated /\ Evaluated')
               => Range(evaluation'.matching_workflows)
                      = {w \in DictKeys(triggers) :
                            Matching(w, evaluation'.trigger_type, evaluation'.event_data)}
           /\ (evaluation.pc = "handler" /\ evaluation'.pc = "none" /\ response' = response)
               => \A k \in 1..Len(HandlersOf(evaluation.trigger_type)) :
                     \A w \in Range(evaluation.matching_workflows) :
                        \E i \in 1..Len(dispatched') :
                            dispatched'[i].entry = k /\ dispatched'[i].workflow_id = w
         ]_vars

====
